---- MODULE Spec2Model ----
(***************************************************************************)
(* A model of the SoW-Generator core: the spreadsheet extractor            *)
(* (SOWGenerator.process_excel_file), text substitution                    *)
(* (replace_text_in_doc), budget table reconciliation (sync_budget_table)  *)
(* and the generate_sow / generate_preview flows.                          *)
(*                                                                         *)
(* A Python str is a sequence of one-character strings.  A Python dict is  *)
(* a sequence of <<key, value>> pairs with distinct keys, in insertion     *)
(* order.                                                                  *)
(***************************************************************************)
EXTENDS Integers, Sequences, FiniteSets, TLC

VARIABLES
    replacements,        \* SOWGenerator.replacements        (dict)
    phase_mapping,       \* SOWGenerator.phase_mapping       (dict)
    variable_dict,       \* SOWGenerator.variable_dict       (dict)
    budget_placeholders, \* SOWGenerator.budget_placeholders (dict)
    doc,                 \* the Document being processed
    start,               \* the Document as it was before any operation
    pre,                 \* what the last operation started from
    excel,               \* the spreadsheet handed to the last/current call
    outcome,             \* how the last call ended: "none", "ok", "error"
    calls,               \* number of calls made so far
    pc,                  \* position in the generate/preview flow
    tmpfiles,            \* temporary files that exist on disk
    request,             \* the uploads and the button of the current request
    output,              \* what the request produced: a preview or a saved file
    session              \* st.session_state of the PlaceholderUI script

vars == <<replacements, phase_mapping, variable_dict, budget_placeholders,
          doc, start, pre, excel, outcome, calls, pc, tmpfiles, request, output, session>>

----------------------------------------------------------------------------
(* Python str operations *)

UpperChars == <<"A","B","C","D","E","F","G","H","I","J","K","L","M",
                "N","O","P","Q","R","S","T","U","V","W","X","Y","Z">>

LowerChars == <<"a","b","c","d","e","f","g","h","i","j","k","l","m",
                "n","o","p","q","r","s","t","u","v","w","x","y","z">>

\* the lower-case letter of each upper-case one, and the reverse
ToLower == [c \in {UpperChars[i] : i \in 1..26} |->
              LowerChars[CHOOSE i \in 1..26 : UpperChars[i] = c]]

ToUpper == [c \in {LowerChars[i] : i \in 1..26} |->
              UpperChars[CHOOSE i \in 1..26 : LowerChars[i] = c]]

IsUpper(c) == c \in DOMAIN ToLower

IsLower(c) == c \in DOMAIN ToUpper

LowerChar(c) == IF IsUpper(c) THEN ToLower[c] ELSE c

UpperChar(c) == IF IsLower(c) THEN ToUpper[c] ELSE c

\* str.lower()
Lower(s) == [i \in 1..Len(s) |-> LowerChar(s[i])]

\* str.upper()
Upper(s) == [i \in 1..Len(s) |-> UpperChar(s[i])]

\* the phase key written as it is, str.title() left out
Untitled(s) == s

\* str.title(): a cased character is upper-cased when the character before
\* it is not cased, and lower-cased otherwise.
Title(s) ==
    [i \in 1..Len(s) |->
        IF i > 1 /\ (IsUpper(s[i-1]) \/ IsLower(s[i-1]))
        THEN LowerChar(s[i]) ELSE UpperChar(s[i])]

WhiteSpace == {" ", "\n", "\t"}

\* str.strip()
Strip(s) ==
    LET keep == {i \in 1..Len(s) : s[i] \notin WhiteSpace}
    IN  IF keep = {} THEN <<>>
        ELSE LET lo == CHOOSE i \in keep : \A j \in keep : i <= j
                 hi == CHOOSE i \in keep : \A j \in keep : j <= i
             IN  SubSeq(s, lo, hi)

IsPrefixAt(sub, s, i) ==
    /\ i + Len(sub) - 1 <= Len(s)
    /\ SubSeq(s, i, i + Len(sub) - 1) = sub

\* sub in s
Contains(sub, s) == \E i \in 1..(Len(s) - Len(sub) + 1) : IsPrefixAt(sub, s, i)

RECURSIVE ReplaceFrom(_, _, _, _)
ReplaceFrom(s, old, new, i) ==
    IF i > Len(s) THEN <<>>
    ELSE IF IsPrefixAt(old, s, i)
         THEN new \o ReplaceFrom(s, old, new, i + Len(old))
         ELSE <<s[i]>> \o ReplaceFrom(s, old, new, i + 1)

RECURSIVE Interleave(_, _, _)
Interleave(s, new, i) ==
    IF i > Len(s) THEN new ELSE new \o <<s[i]>> \o Interleave(s, new, i + 1)

\* str.replace(old, new, 1): the first occurrence only
StrReplaceFirst(s, old, new) ==
    LET at == {i \in 1..Len(s) : IsPrefixAt(old, s, i)}
    IN  IF old = <<>> THEN new \o s
        ELSE IF at = {} THEN s
        ELSE LET i == CHOOSE k \in at : \A j \in at : k <= j
             IN  SubSeq(s, 1, i - 1) \o new \o SubSeq(s, i + Len(old), Len(s))

\* str.replace(old, new): every non-overlapping occurrence, left to right;
\* an empty old matches before every character and at the end.
StrReplace(s, old, new) ==
    IF old = <<>> THEN Interleave(s, new, 1) ELSE ReplaceFrom(s, old, new, 1)

----------------------------------------------------------------------------
(* Python dict operations (insertion ordered) *)

Keys(d) == {d[i][1] : i \in 1..Len(d)}

KeyList(d) == [i \in 1..Len(d) |-> d[i][1]]

HasKey(d, k) == \E i \in 1..Len(d) : d[i][1] = k

\* d[k]
Get(d, k) == d[CHOOSE i \in 1..Len(d) : d[i][1] = k][2]

\* DictSet that leaves the value of an existing key alone
DictSetFirst(d, k, v) ==
    IF HasKey(d, k) THEN d ELSE Append(d, <<k, v>>)

\* d[k] = v: an existing key keeps its position
DictSet(d, k, v) ==
    IF HasKey(d, k)
    THEN [i \in 1..Len(d) |-> IF d[i][1] = k THEN <<k, v>> ELSE d[i]]
    ELSE Append(d, <<k, v>>)

RECURSIVE DictUpdate(_, _)
\* {**a, **b}
DictUpdate(a, b) ==
    IF b = <<>> THEN a
    ELSE DictUpdate(DictSet(a, b[1][1], b[1][2]), Tail(b))

----------------------------------------------------------------------------
(* Python values held in cells and dicts *)

\* float('nan'), what pandas gives for an empty cell; no str equals it.
NaN == <<"float:nan">>

\* str(v) of a dict value: a str is itself, the empty-cell float prints "nan".
PyStr(v) == IF v = NaN THEN <<"n","a","n">> ELSE v

DigitChars == <<"0","1","2","3","4","5","6","7","8","9">>

IsDigit(c) == \E i \in 1..10 : DigitChars[i] = c

DigitVal(c) == (CHOOSE i \in 1..10 : DigitChars[i] = c) - 1

AllDigits(s) == s # <<>> /\ \A i \in 1..Len(s) : IsDigit(s[i])

RECURSIVE DigitsToNat(_)
DigitsToNat(s) ==
    IF s = <<>> THEN 0
    ELSE 10 * DigitsToNat(SubSeq(s, 1, Len(s) - 1)) + DigitVal(s[Len(s)])

RECURSIVE NatToDigits(_)
\* str(n) for n >= 0
NatToDigits(n) ==
    IF n < 10 THEN <<DigitChars[n + 1]>>
    ELSE NatToDigits(n \div 10) \o <<DigitChars[(n % 10) + 1]>>

RECURSIVE Pow10(_)
Pow10(k) == IF k = 0 THEN 1 ELSE 10 * Pow10(k - 1)

RECURSIVE Group3(_)
\* the "," option of the format spec: a comma before every group of three
\* digits counted from the right
Group3(ds) ==
    IF Len(ds) <= 3 THEN ds
    ELSE Group3(SubSeq(ds, 1, Len(ds) - 3)) \o <<",">> \o SubSeq(ds, Len(ds) - 2, Len(ds))

\* f"{n:,}" for an int n
FormatInt(n) ==
    IF n < 0 THEN <<"-">> \o Group3(NatToDigits(-n)) ELSE Group3(NatToDigits(n))

\* math.floor(x) in the place of int(x)
IntOfFloor(num, den) == num \div den

\* int(x) for the float x = num/den (den > 0): truncation toward zero
IntOf(num, den) == IF num >= 0 THEN num \div den ELSE -((-num) \div den)

\* f"${int(amount_val):,}"
FormatAmount(num, den) == <<"$">> \o FormatInt(IntOf(num, den))

\* float(s) for a str s, on the literals a budget cell holds: surrounding
\* white space, an optional sign, then either decimal digits with an optional
\* fraction, or inf / nan.  kind is "value" (num/den), "inf", "nan", or
\* "invalid" (ValueError).
ParseFloat(s) ==
    LET t    == Strip(s)
        neg  == t # <<>> /\ t[1] = "-"
        body == IF t # <<>> /\ t[1] \in {"-", "+"} THEN Tail(t) ELSE t
        low  == Lower(body)
        dots == {i \in 1..Len(body) : body[i] = "."}
        bad  == [kind |-> "invalid", num |-> 0, den |-> 1]
    IN  IF low \in {<<"i","n","f">>, <<"i","n","f","i","n","i","t","y">>}
        THEN [kind |-> "inf", num |-> 0, den |-> 1]
        ELSE IF low = <<"n","a","n">>
        THEN [kind |-> "nan", num |-> 0, den |-> 1]
        ELSE IF dots = {}
        THEN IF AllDigits(body)
             THEN [kind |-> "value",
                   num |-> IF neg THEN -DigitsToNat(body) ELSE DigitsToNat(body),
                   den |-> 1]
             ELSE bad
        ELSE IF Cardinality(dots) = 1
        THEN LET d    == CHOOSE i \in dots : TRUE
                 ip   == SubSeq(body, 1, d - 1)
                 fp   == SubSeq(body, d + 1, Len(body))
                 okp  == /\ \A i \in 1..Len(ip) : IsDigit(ip[i])
                         /\ \A i \in 1..Len(fp) : IsDigit(fp[i])
                         /\ Len(ip) + Len(fp) > 0
                 mag  == DigitsToNat(ip) * Pow10(Len(fp)) + DigitsToNat(fp)
             IN  IF okp
                 THEN [kind |-> "value",
                       num |-> IF neg THEN -mag ELSE mag,
                       den |-> Pow10(Len(fp))]
                 ELSE bad
        ELSE bad

----------------------------------------------------------------------------
(* Date normalisation of the Variables values *)

\* %b
MonthAbbr == <<<<"J","a","n">>,
              <<"F","e","b">>,
              <<"M","a","r">>,
              <<"A","p","r">>,
              <<"M","a","y">>,
              <<"J","u","n">>,
              <<"J","u","l">>,
              <<"A","u","g">>,
              <<"S","e","p">>,
              <<"O","c","t">>,
              <<"N","o","v">>,
              <<"D","e","c">>>>

IsLeap(y) == (y % 4 = 0 /\ y % 100 # 0) \/ y % 400 = 0

DaysIn(y, m) ==
    IF m = 2 THEN (IF IsLeap(y) THEN 29 ELSE 28)
    ELSE IF m \in {4, 6, 9, 11} THEN 30 ELSE 31

RECURSIVE Split(_, _)
\* s.split(sep) for a one-character sep
Split(s, sep) ==
    LET at == {i \in 1..Len(s) : s[i] = sep}
    IN  IF at = {} THEN <<s>>
        ELSE LET i == CHOOSE k \in at : \A j \in at : k <= j
             IN  <<SubSeq(s, 1, i - 1)>> \o Split(SubSeq(s, i + 1, Len(s)), sep)

\* a one- or two-digit strptime field (%m, %d, %H, %M, %S) in lo..hi
Field2(f, lo, hi) ==
    /\ Len(f) \in {1, 2}
    /\ AllDigits(f)
    /\ DigitsToNat(f) >= lo
    /\ DigitsToNat(f) <= hi

\* datetime.strptime(s, "%Y-%m-%d"): ok is FALSE for ValueError
ParseYMD(s) ==
    LET f  == Split(s, "-")
        ok == /\ Len(f) = 3
              /\ Len(f[1]) = 4 /\ AllDigits(f[1]) /\ DigitsToNat(f[1]) >= 1
              /\ Field2(f[2], 1, 12)
              /\ Field2(f[3], 1, 31)
              /\ DigitsToNat(f[3]) <= DaysIn(DigitsToNat(f[1]), DigitsToNat(f[2]))
    IN  IF ok
        THEN [ok |-> TRUE, y |-> DigitsToNat(f[1]), m |-> DigitsToNat(f[2]),
              d |-> DigitsToNat(f[3])]
        ELSE [ok |-> FALSE, y |-> 0, m |-> 0, d |-> 0]

\* datetime.strptime(s, "%Y-%m-%d %H:%M:%S") (date and time separated by one
\* space)
ParseYMDHMS(s) ==
    LET parts == Split(s, " ")
        t     == IF Len(parts) = 2 THEN Split(parts[2], ":") ELSE <<>>
        okt   == /\ Len(parts) = 2
                 /\ Len(t) = 3
                 /\ Field2(t[1], 0, 23)
                 /\ Field2(t[2], 0, 59)
                 /\ Field2(t[3], 0, 61)
    IN  IF okt THEN ParseYMD(parts[1])
        ELSE [ok |-> FALSE, y |-> 0, m |-> 0, d |-> 0]

Pad2(n) == IF n < 10 THEN <<"0">> \o NatToDigits(n) ELSE NatToDigits(n)

\* strftime("%d-%b-%y")
FormatDMY(dt) ==
    Pad2(dt.d) \o <<"-">> \o MonthAbbr[dt.m] \o <<"-">> \o Pad2(dt.y % 100)

\* One value of the "Handle date formatting" loop.  The Variables sheet is
\* read with dtype=str, so a value is a str or the empty-cell float and the
\* datetime branch never applies.
NormalizeDate(v) ==
    IF v = NaN \/ v \in {<<"n","a","n">>, <<>>} THEN v
    ELSE IF Contains(<<" ","0","0",":","0","0",":","0","0">>, v)
    THEN (IF ParseYMDHMS(v).ok THEN FormatDMY(ParseYMDHMS(v)) ELSE v)
    ELSE IF Len(v) = 10 /\ Contains(<<"-">>, v)
    THEN (IF ParseYMD(v).ok THEN FormatDMY(ParseYMD(v)) ELSE v)
    ELSE v

----------------------------------------------------------------------------
(* The spreadsheet.  A workbook is a record                                *)
(*   sheets      : the sheet names it holds                                *)
(*   var_columns : the header cells of the Variables sheet                 *)
(*   variables   : the Variables rows, <<Variable Component, Example Value>>*)
(*   budget_cols : the number of columns of the Budget sheet               *)
(*   budget      : the Budget rows, [phase, amount] = columns A and F      *)
(* A Budget amount cell is [kind, num, den, text]: kind "nan" is an empty  *)
(* cell, "num" the number num/den, "str" the text.                         *)

S_Variables == <<"V","a","r","i","a","b","l","e","s">>

S_Budget == <<"B","u","d","g","e","t">>

S_VariableComponent == <<"V","a","r","i","a","b","l","e"," ","C","o","m","p","o","n","e","n","t">>

S_ExampleValue == <<"E","x","a","m","p","l","e"," ","V","a","l","u","e">>

S_total == <<"t","o","t","a","l">>

S_nan == <<"n","a","n">>

S_TOTAL == <<"{","T","O","T","A","L","}">>

S_PROJECTTOTAL == <<"{","P","R","O","J","E","C","T","T","O","T","A","L","}">>

Failed == [ok |-> FALSE, dict |-> <<>>]

RECURSIVE SeriesToDict(_, _)
\* pd.Series(values, index=keys).to_dict(): a repeated key keeps its first
\* position and its last value
SeriesToDict(rows, d) ==
    IF rows = <<>> THEN d
    ELSE SeriesToDict(Tail(rows), DictSet(d, rows[1][1], rows[1][2]))

\* The Variables part of process_excel_file: read the sheet (a missing sheet
\* or column raises), build the dict, normalise the dates.
ExtractVariables(xl) ==
    IF S_Variables \notin xl.sheets THEN Failed
    ELSE IF ~({S_VariableComponent, S_ExampleValue} \subseteq xl.var_columns) THEN Failed
    ELSE LET d == SeriesToDict(xl.variables, <<>>)
         IN  [ok |-> TRUE,
              dict |-> [i \in 1..Len(d) |-> <<d[i][1], NormalizeDate(d[i][2])>>]]

\* pd.notna(amount) and str(amount).strip() != ""
AmountPresent(cell) ==
    \/ cell.kind = "num"
    \/ cell.kind = "str" /\ Strip(cell.text) # <<>>

\* float(amount)
FloatOf(cell) ==
    IF cell.kind = "num" THEN [kind |-> "value", num |-> cell.num, den |-> cell.den]
    ELSE ParseFloat(cell.text)

\* The value stored for a present amount: the formatted amount, "" when
\* float() or int() raises ValueError (int(nan) does).
AmountText(cell) ==
    LET f == FloatOf(cell)
    IN  IF f.kind = "value" THEN FormatAmount(f.num, f.den) ELSE <<>>

\* int(float('inf')) raises OverflowError, which the loop does not catch
AmountOverflows(cell) == AmountPresent(cell) /\ FloatOf(cell).kind = "inf"

RECURSIVE BudgetLoop(_, _, _, _)
\* for i in range(len(budget_df)), from row i on, with phase_mapping pm
BudgetLoop(rows, cols, i, pm) ==
    IF i >= Len(rows) THEN [ok |-> TRUE, dict |-> pm]
    ELSE IF cols < 6 THEN Failed     \* budget_df.iloc[i, 5]: IndexError
    ELSE LET row   == rows[i + 1]
             phase == Strip(PyStr(row.phase))
             skip  == phase = <<>> \/ Lower(phase) \in {S_nan, <<>>} \/ i = 0
         IN  IF skip THEN BudgetLoop(rows, cols, i + 1, pm)
             ELSE IF AmountOverflows(row.amount) THEN Failed
             ELSE BudgetLoop(rows, cols, i + 1,
                    DictSet(pm, Lower(phase),
                            IF AmountPresent(row.amount)
                            THEN AmountText(row.amount) ELSE <<>>))

\* The Budget part of process_excel_file
ExtractBudget(xl) ==
    IF S_Budget \notin xl.sheets THEN Failed
    ELSE BudgetLoop(xl.budget, xl.budget_cols, 0, <<>>)

\* "{" + phase.upper().replace(" ", "").replace("&", "") + "}"
PlaceholderOf(phase) ==
    <<"{">> \o StrReplace(StrReplace(Upper(phase), <<" ">>, <<>>), <<"&">>, <<>>) \o <<"}">>

RECURSIVE PlaceholderLoop(_, _)
\* for phase, amount in phase_mapping.items()
PlaceholderLoop(pm, bp) ==
    IF pm = <<>> THEN bp
    ELSE LET phase  == pm[1][1]
             amount == pm[1][2]
         IN  PlaceholderLoop(Tail(pm),
                IF phase = S_total
                THEN DictSet(DictSet(bp, S_TOTAL, amount), S_PROJECTTOTAL, amount)
                ELSE DictSet(bp, PlaceholderOf(phase), amount))

BudgetPlaceholders(pm) == PlaceholderLoop(pm, <<>>)

\* {**budget_placeholders, **variable_dict}: the operands swapped
MergeVariablesLast(vd, bp) == DictUpdate(bp, vd)

\* {**variable_dict, **budget_placeholders}
MergeReplacements(vd, bp) == DictUpdate(vd, bp)

EmptyGenerator ==
    [replacements |-> <<>>, phase_mapping |-> <<>>,
     variable_dict |-> <<>>, budget_placeholders |-> <<>>]

\* The four fields as lines 87-92 assign them
Stored(vd, pm, bp) ==
    [replacements        |-> MergeReplacements(vd, bp),
     phase_mapping       |-> pm,
     variable_dict       |-> vd,
     budget_placeholders |-> bp]

\* The fields at exit, v and b being what reading the two sheets gave, with
\* self.variable_dict assigned as soon as the Variables sheet is read
StoreEarly(v, b) ==
    IF v.ok /\ b.ok THEN Stored(v.dict, b.dict, BudgetPlaceholders(b.dict))
    ELSE [EmptyGenerator EXCEPT !.variable_dict = v.dict]

\* The fields at exit, v and b being what reading the two sheets gave: reset
\* at entry, assigned only after both sheets were read
Store(v, b) ==
    IF v.ok /\ b.ok THEN Stored(v.dict, b.dict, BudgetPlaceholders(b.dict))
    ELSE EmptyGenerator

\* The generator's four fields when process_excel_file(xl) exits
GeneratorAfter(xl) == Store(ExtractVariables(xl), ExtractBudget(xl))

\* whether process_excel_file(xl) returns (TRUE) or raises (FALSE)
ExtractionSucceeds(xl) == ExtractVariables(xl).ok /\ ExtractBudget(xl).ok

Generator ==
    [replacements |-> replacements, phase_mapping |-> phase_mapping,
     variable_dict |-> variable_dict, budget_placeholders |-> budget_placeholders]

----------------------------------------------------------------------------
(* The document (python-docx).                                             *)
(*   Document  : [paragraphs, tables]                                      *)
(*   Paragraph : [runs, alignment], a run being [text, bold]               *)
(*   Table     : [rows, grid], grid the number of grid columns             *)
(*   Row       : [id, cells], id standing for the identity of its <w:tr>   *)
(*   Cell      : the sequence of its paragraphs                            *)
(* Row and column indices are the 0-based indices of the Python code; the  *)
(* element with index i is at position i + 1.                              *)

RECURSIVE Join(_, _)
\* sep.join(parts)
Join(parts, sep) ==
    IF parts = <<>> THEN <<>>
    ELSE IF Len(parts) = 1 THEN parts[1]
    ELSE parts[1] \o sep \o Join(Tail(parts), sep)

\* Paragraph.text
ParagraphText(p) == Join([i \in 1..Len(p.runs) |-> p.runs[i].text], <<>>)

\* _Cell.text (getter)
CellText(c) == Join([i \in 1..Len(c) |-> ParagraphText(c[i])], <<"\n">>)

Run(t, b) == [text |-> t, bold |-> b]

\* cell.text = ""; p = cell.paragraphs[0]; run = p.add_run(t); run.bold = b;
\* p.alignment = WD_ALIGN_PARAGRAPH.CENTER.  The setter leaves one paragraph
\* holding one empty run.
WriteCell(t, b) ==
    <<[runs |-> <<Run(<<>>, FALSE), Run(t, b)>>, alignment |-> "center"]>>

\* the cell of a row made by Table.add_row(): one paragraph, no run
BlankCell == <<[runs |-> <<>>, alignment |-> "none"]>>

\* ReplaceLoop with a break after the first key found
ReplaceLoopBreak(full_text, repl) ==
    LET hits == {i \in 1..Len(repl) : Contains(repl[i][1], full_text)}
    IN  IF hits = {} THEN full_text
        ELSE LET i == CHOOSE k \in hits : \A j \in hits : k <= j
             IN  StrReplace(full_text, repl[i][1], PyStr(repl[i][2]))

RECURSIVE ReplaceLoop(_, _)
\* for key, val in replacements.items():
\*     if key in full_text: full_text = full_text.replace(key, str(val))
ReplaceLoop(full_text, repl) ==
    IF repl = <<>> THEN full_text
    ELSE ReplaceLoop(IF Contains(repl[1][1], full_text)
                     THEN StrReplace(full_text, repl[1][1], PyStr(repl[1][2]))
                     ELSE full_text,
                     Tail(repl))

\* ReplaceInParagraph with the first run assigned and no run cleared
ReplaceKeepingRuns(p, repl) ==
    LET full_text == ReplaceLoop(ParagraphText(p), repl)
    IN  IF full_text = ParagraphText(p) THEN p
        ELSE IF p.runs = <<>>
        THEN [p EXCEPT !.runs = <<Run(full_text, FALSE)>>]
        ELSE [p EXCEPT !.runs[1].text = full_text]

\* The body of the paragraph loops of replace_text_in_doc: when the text
\* changes every run is cleared and the first one (a new one if there is
\* none) takes the new text.
ReplaceInParagraph(p, repl) ==
    LET full_text == ReplaceLoop(ParagraphText(p), repl)
    IN  IF full_text = ParagraphText(p) THEN p
        ELSE IF p.runs = <<>>
        THEN [p EXCEPT !.runs = <<Run(full_text, FALSE)>>]
        ELSE [p EXCEPT !.runs =
                [i \in 1..Len(p.runs) |->
                    [p.runs[i] EXCEPT !.text = IF i = 1 THEN full_text ELSE <<>>]]]

ReplaceInCell(c, repl) == [i \in 1..Len(c) |-> ReplaceInParagraph(c[i], repl)]

ReplaceInRow(r, repl) ==
    [r EXCEPT !.cells = [i \in 1..Len(r.cells) |-> ReplaceInCell(r.cells[i], repl)]]

ReplaceInTable(t, repl) ==
    [t EXCEPT !.rows = [i \in 1..Len(t.rows) |-> ReplaceInRow(t.rows[i], repl)]]

\* replace_text_in_doc(doc, replacements): the document it leaves
ReplaceTextInDoc(d, repl) ==
    [paragraphs |-> [i \in 1..Len(d.paragraphs) |-> ReplaceInParagraph(d.paragraphs[i], repl)],
     tables     |-> [i \in 1..Len(d.tables) |-> ReplaceInTable(d.tables[i], repl)]]

----------------------------------------------------------------------------
(* sync_budget_table *)

S_phase == <<"p","h","a","s","e">>

S_estimate == <<"e","s","t","i","m","a","t","e">>

S_cost == <<"c","o","s","t">>

S_estimated_total == <<"e","s","t","i","m","a","t","e","d"," ","t","o","t","a","l">>

\* Python's None where a str is expected (matched_phase)
None == <<"None">>

\* st.session_state of PlaceholderUI before any spreadsheet was loaded
NoSession == [replacements |-> None, phase_mapping |-> None]

\* Python's None where an index is expected (phase_col, estimate_col,
\* total_row_idx, the table found)
NoIndex == -1

\* headers: cell.text.strip().lower() of every cell of row 0
Headers(t) ==
    [i \in 1..Len(t.rows[1].cells) |-> Lower(Strip(CellText(t.rows[1].cells[i])))]

Last(S) == CHOOSE i \in S : \A j \in S : j <= i

First(S) == CHOOSE i \in S : \A j \in S : i <= j

\* phase_col after the header loop: the last header holding 'phase'
PhaseCol(t) ==
    LET h    == Headers(t)
        hits == {i \in 1..Len(h) : Contains(S_phase, h[i])}
    IN  IF hits = {} THEN NoIndex ELSE Last(hits) - 1

\* estimate_col after the header loop: the last header that does not hold
\* 'phase' (the elif) and holds 'estimate' or 'cost'
EstimateCol(t) ==
    LET h    == Headers(t)
        hits == {i \in 1..Len(h) :
                    /\ ~Contains(S_phase, h[i])
                    /\ (Contains(S_estimate, h[i]) \/ Contains(S_cost, h[i]))}
    IN  IF hits = {} THEN NoIndex ELSE Last(hits) - 1

\* IsBudgetTable with the width test off by one (a two-cell header passes)
IsBudgetTableTwoCells(t) ==
    /\ ~(Len(t.rows) < 2 \/ Len(t.rows[1].cells) < 2)
    /\ ~(PhaseCol(t) = NoIndex \/ EstimateCol(t) = NoIndex)

\* Neither `continue` of the table loop is taken
IsBudgetTable(t) ==
    /\ ~(Len(t.rows) < 2 \/ Len(t.rows[1].cells) < 3)
    /\ ~(PhaseCol(t) = NoIndex \/ EstimateCol(t) = NoIndex)

\* The table the loop over doc.tables stops at: the index (0-based) of the
\* first one it does not skip, NoIndex when it skips them all.
BudgetTableIndex(tables) ==
    LET hits == {i \in 1..Len(tables) : IsBudgetTable(tables[i])}
    IN  IF hits = {} THEN NoIndex ELSE First(hits) - 1

\* row.cells[col] raises IndexError
LacksCell(row, col) == col >= Len(row.cells)

\* phase_cell.text.strip().lower()
PhaseLower(row, phase_col) == Lower(Strip(CellText(row.cells[phase_col + 1])))

\* the key search without its break: the last matching key is kept
MatchedPhaseLast(pm, phase_lower) ==
    LET hits == {i \in 1..Len(pm) :
                    \/ Contains(pm[i][1], phase_lower)
                    \/ Contains(phase_lower, pm[i][1])}
    IN  IF hits = {} THEN None ELSE pm[Last(hits)][1]

\* for excel_phase in phase_mapping.keys(): the first key that holds the row's
\* phase text or is held by it
MatchedPhase(pm, phase_lower) ==
    LET hits == {i \in 1..Len(pm) :
                    \/ Contains(pm[i][1], phase_lower)
                    \/ Contains(phase_lower, pm[i][1])}
    IN  IF hits = {} THEN None ELSE pm[First(hits)][1]

RECURSIVE UpdateLoopBreak(_, _, _, _, _)
\* UpdateLoop with break in place of continue: the loop ends at the first row
\* that lacks a cell
UpdateLoopBreak(st, pm, phase_col, estimate_col, row_idx) ==
    IF row_idx >= Len(st.rows) THEN st
    ELSE LET row == st.rows[row_idx + 1]
         IN  IF LacksCell(row, phase_col) \/ LacksCell(row, estimate_col)
             THEN st
             ELSE LET phase_lower   == PhaseLower(row, phase_col)
                      matched_phase == MatchedPhase(pm, phase_lower)
                  IN  IF matched_phase # None /\ matched_phase # <<>>
                      THEN UpdateLoopBreak(
                             [st EXCEPT
                                !.rows[row_idx + 1].cells[estimate_col + 1] =
                                    WriteCell(Get(pm, matched_phase), FALSE),
                                !.seen_phases = @ \cup {matched_phase}],
                             pm, phase_col, estimate_col, row_idx + 1)
                      ELSE IF phase_lower \notin {S_total, S_estimated_total}
                      THEN UpdateLoopBreak(
                             [st EXCEPT !.rows_to_update = Append(@, row_idx)],
                             pm, phase_col, estimate_col, row_idx + 1)
                      ELSE UpdateLoopBreak(st, pm, phase_col, estimate_col, row_idx + 1)

RECURSIVE UpdateLoop(_, _, _, _, _)
\* The first loop over table.rows[1:], from row row_idx on.  st is
\* [rows, seen_phases, rows_to_update]; rows_to_update lists the indices
\* marked 'remove', in the order they were appended.
UpdateLoop(st, pm, phase_col, estimate_col, row_idx) ==
    IF row_idx >= Len(st.rows) THEN st
    ELSE LET row == st.rows[row_idx + 1]
         IN  IF LacksCell(row, phase_col) \/ LacksCell(row, estimate_col)
             THEN UpdateLoop(st, pm, phase_col, estimate_col, row_idx + 1)
             ELSE LET phase_lower   == PhaseLower(row, phase_col)
                      matched_phase == MatchedPhase(pm, phase_lower)
                  IN  IF matched_phase # None /\ matched_phase # <<>>
                      THEN UpdateLoop(
                             [st EXCEPT
                                !.rows[row_idx + 1].cells[estimate_col + 1] =
                                    WriteCell(Get(pm, matched_phase), FALSE),
                                !.seen_phases = @ \cup {matched_phase}],
                             pm, phase_col, estimate_col, row_idx + 1)
                      ELSE IF phase_lower \notin {S_total, S_estimated_total}
                      THEN UpdateLoop(
                             [st EXCEPT !.rows_to_update = Append(@, row_idx)],
                             pm, phase_col, estimate_col, row_idx + 1)
                      ELSE UpdateLoop(st, pm, phase_col, estimate_col, row_idx + 1)

\* RemoveRowAt taking the index as counted from one: the row above goes
RemoveRowAbove(rows, row_idx) ==
    SubSeq(rows, 1, row_idx - 1) \o SubSeq(rows, row_idx + 1, Len(rows))

\* tbl.remove(table.rows[row_idx]._tr)
RemoveRowAt(rows, row_idx) ==
    SubSeq(rows, 1, row_idx) \o SubSeq(rows, row_idx + 2, Len(rows))

RECURSIVE RemoveLoopForward(_, _)
\* RemoveLoop without reversed(): the indices shift under the removals
RemoveLoopForward(rows, rows_to_update) ==
    IF rows_to_update = <<>> THEN rows
    ELSE RemoveLoopForward(RemoveRowAt(rows, rows_to_update[1]), Tail(rows_to_update))

RECURSIVE RemoveLoop(_, _)
\* for row_idx, action in reversed(rows_to_update)
RemoveLoop(rows, rows_to_update) ==
    IF rows_to_update = <<>> THEN rows
    ELSE RemoveLoop(RemoveRowAt(rows, rows_to_update[Len(rows_to_update)]),
                    SubSeq(rows_to_update, 1, Len(rows_to_update) - 1))

\* total_row_idx: the first data row whose phase text holds 'total'; a row
\* without the phase cell is passed over
TotalRowIdx(rows, phase_col) ==
    LET hits == {i \in 1..(Len(rows) - 1) :
                    /\ ~LacksCell(rows[i + 1], phase_col)
                    /\ Contains(S_total, PhaseLower(rows[i + 1], phase_col))}
    IN  IF hits = {} THEN NoIndex ELSE First(hits)

\* the largest row id of a table (0 for none)
MaxId(rows) ==
    LET ids == {rows[i].id : i \in 1..Len(rows)}
    IN  IF ids = {} THEN 0 ELSE CHOOSE m \in ids : \A n \in ids : n <= m

\* the id of a row made by add_row(): a <w:tr> element the table never held;
\* base is the largest id the table held at entry
FreshId(rows, base) == (IF MaxId(rows) > base THEN MaxId(rows) ELSE base) + 1

\* One missing phase: table.add_row(), the move before table.rows[total_row_idx]
\* when total_row_idx is set, then the two cells.  A grid too narrow for the
\* two columns raises before either cell is written, and the row stays as
\* added.
AddPhaseRow(rows, grid, base, phase_col, estimate_col, total_row_idx, excel_phase, amount) ==
    LET blank   == [id |-> FreshId(rows, base), cells |-> [i \in 1..grid |-> BlankCell]]
        new_row == IF LacksCell(blank, phase_col) \/ LacksCell(blank, estimate_col)
                   THEN blank
                   ELSE [blank EXCEPT
                            !.cells[phase_col + 1]    = WriteCell(Title(excel_phase), TRUE),
                            !.cells[estimate_col + 1] = WriteCell(amount, FALSE)]
    IN  IF total_row_idx # NoIndex
        THEN SubSeq(rows, 1, total_row_idx) \o <<new_row>>
                \o SubSeq(rows, total_row_idx + 1, Len(rows))
        ELSE Append(rows, new_row)

RECURSIVE AddLoopEveryKey(_, _, _, _, _, _, _, _)
\* AddLoop without the seen_phases test: every key but 'total' gets a new row
AddLoopEveryKey(rows, grid, base, pm, seen_phases, phase_col, estimate_col, total_row_idx) ==
    IF pm = <<>> THEN rows
    ELSE AddLoopEveryKey(
            IF pm[1][1] # S_total
            THEN AddPhaseRow(rows, grid, base, phase_col, estimate_col, total_row_idx,
                             pm[1][1], pm[1][2])
            ELSE rows,
            grid, base, Tail(pm), seen_phases, phase_col, estimate_col, total_row_idx)

RECURSIVE AddLoop(_, _, _, _, _, _, _, _)
\* for excel_phase, amount in phase_mapping.items(): pm is what is left of
\* the items
AddLoop(rows, grid, base, pm, seen_phases, phase_col, estimate_col, total_row_idx) ==
    IF pm = <<>> THEN rows
    ELSE AddLoop(
            IF pm[1][1] \notin seen_phases /\ pm[1][1] # S_total
            THEN AddPhaseRow(rows, grid, base, phase_col, estimate_col, total_row_idx,
                             pm[1][1], pm[1][2])
            ELSE rows,
            grid, base, Tail(pm), seen_phases, phase_col, estimate_col, total_row_idx)

\* UpdateTotal without the break: the last such row is the one written
UpdateTotalLast(rows, pm, phase_col, estimate_col) ==
    LET hits == {i \in 1..(Len(rows) - 1) :
                    /\ ~LacksCell(rows[i + 1], phase_col)
                    /\ Contains(S_total, PhaseLower(rows[i + 1], phase_col))
                    /\ ~LacksCell(rows[i + 1], estimate_col)}
    IN  IF ~HasKey(pm, S_total) \/ hits = {} THEN rows
        ELSE [rows EXCEPT ![Last(hits) + 1].cells[estimate_col + 1] =
                            WriteCell(Get(pm, S_total), FALSE)]

\* "Update total if it exists": the first data row that has the phase cell,
\* holds 'total' in it and has the estimate cell gets phase_mapping['total']
UpdateTotal(rows, pm, phase_col, estimate_col) ==
    LET hits == {i \in 1..(Len(rows) - 1) :
                    /\ ~LacksCell(rows[i + 1], phase_col)
                    /\ Contains(S_total, PhaseLower(rows[i + 1], phase_col))
                    /\ ~LacksCell(rows[i + 1], estimate_col)}
    IN  IF ~HasKey(pm, S_total) \/ hits = {} THEN rows
        ELSE [rows EXCEPT ![First(hits) + 1].cells[estimate_col + 1] =
                            WriteCell(Get(pm, S_total), FALSE)]

\* The body of the table loop for the table it does not skip
SyncTable(t, pm) ==
    LET phase_col    == PhaseCol(t)
        estimate_col == EstimateCol(t)
        st  == UpdateLoop([rows |-> t.rows, seen_phases |-> {}, rows_to_update |-> <<>>],
                          pm, phase_col, estimate_col, 1)
        kept  == RemoveLoop(st.rows, st.rows_to_update)
        added == AddLoop(kept, t.grid, MaxId(t.rows), pm, st.seen_phases, phase_col,
                         estimate_col, TotalRowIdx(kept, phase_col))
    IN  [t EXCEPT !.rows = UpdateTotal(added, pm, phase_col, estimate_col)]

\* SyncBudgetTable without the final return: every table that passes is
\* reconciled
SyncEveryBudgetTable(d, pm) ==
    [d EXCEPT !.tables = [i \in 1..Len(d.tables) |->
                            IF IsBudgetTable(d.tables[i])
                            THEN SyncTable(d.tables[i], pm) ELSE d.tables[i]]]

\* sync_budget_table(doc, phase_mapping): the document it leaves
SyncBudgetTable(d, pm) ==
    LET k == BudgetTableIndex(d.tables)
    IN  IF k = NoIndex THEN d
        ELSE [d EXCEPT !.tables[k + 1] = SyncTable(d.tables[k + 1], pm)]

----------------------------------------------------------------------------
(* Texts the templates and mappings below are made of *)

T_Phase == <<"P","h","a","s","e">>

T_Description == <<"D","e","s","c","r","i","p","t","i","o","n">>

T_Estimate == <<"E","s","t","i","m","a","t","e">>

T_Cost == <<"C","o","s","t">>

T_PhaseCost == <<"P","h","a","s","e"," ","C","o","s","t">>

T_Notes == <<"N","o","t","e","s">>

T_PROJECT_PHASE == <<" ","P","R","O","J","E","C","T"," ","P","H","A","S","E"," ">>

T_Hours == <<"H","o","u","r","s">>

T_EstCOST == <<"E","s","t","."," ","C","O","S","T">>

T_Item == <<"I","t","e","m">>

T_Price == <<"P","r","i","c","e">>

T_Discovery == <<"D","i","s","c","o","v","e","r","y">>

T_DesignReview == <<"D","e","s","i","g","n"," ","R","e","v","i","e","w">>

T_TOTAL == <<" ","T","O","T","A","L"," ">>

T_Total == <<"T","o","t","a","l">>

T_DiscoveryTotal == <<"D","i","s","c","o","v","e","r","y"," ","T","o","t","a","l">>

T_LegacyPhase == <<"L","e","g","a","c","y"," ","P","h","a","s","e">>

T_EstimatedTotal == <<"E","s","t","i","m","a","t","e","d"," ","T","o","t","a","l">>

T_Build == <<"B","u","i","l","d">>

K_discovery == <<"d","i","s","c","o","v","e","r","y">>

K_design == <<"d","e","s","i","g","n">>

K_design_review == <<"d","e","s","i","g","n"," ","r","e","v","i","e","w">>

K_build == <<"b","u","i","l","d">>

A_5000 == <<"$","5",",","0","0","0">>

A_15000 == <<"$","1","5",",","0","0","0">>

A_20000 == <<"$","2","0",",","0","0","0">>

A_0 == <<"$","0">>

A_1 == <<"$","1">>

----------------------------------------------------------------------------
(* Building documents *)

\* a cell holding one paragraph with one plain run
TextCell(t) == <<[runs |-> <<Run(t, FALSE)>>, alignment |-> "none"]>>

\* a table whose rows hold the given texts (row 0 is the header); the grid
\* is as wide as the header
MakeTable(texts) ==
    [rows |-> [i \in 1..Len(texts) |->
                 [id |-> i,
                  cells |-> [j \in 1..Len(texts[i]) |-> TextCell(texts[i][j])]]],
     grid |-> Len(texts[1])]

SeqsUpTo(S, n) == UNION {[1..k -> S] : k \in 0..n}

\* a dict with the given keys in the given order
DictOf(keys, value) == [i \in 1..Len(keys) |-> <<keys[i], value[keys[i]]>>]

IsInjective(q) == \A i, j \in 1..Len(q) : q[i] = q[j] => i = j

----------------------------------------------------------------------------
(* Bounds *)

\* data rows of a generated budget table
MaxDataRows == 3

\* entries of a generated PhaseMapping
MaxPhases == 2

\* tables of a generated document
MaxTables == 2

----------------------------------------------------------------------------
(* Reconciliation on its own: sync_budget_table on generated documents *)

BudgetHeader == <<T_Phase, T_Description, T_Estimate>>

\* the data rows a generated budget table is made of; the last one has
\* blank texts
DataRowChoices ==
    { <<T_Discovery, <<>>, A_1>>,
      <<T_DesignReview, <<>>, A_1>>,
      <<T_TOTAL, <<>>, A_0>>,
      <<T_LegacyPhase, <<>>, A_0>>,
      <<<<>>, <<>>, <<>>>> }

\* the amounts of the generated mappings; 'design' has a blank amount
PhaseAmount ==
    (K_discovery :> A_5000) @@ (K_design :> <<>>) @@ (K_build :> A_15000)
        @@ (S_total :> A_20000)

\* the keys of the generated mappings
PhaseKeyChoices == {K_discovery, K_design, S_total}

PhaseMappings ==
    {DictOf(q, PhaseAmount) : q \in {q \in SeqsUpTo(PhaseKeyChoices, MaxPhases) : IsInjective(q)}}

ReconcileDocs ==
    {[paragraphs |-> <<>>, tables |-> <<MakeTable(<<BudgetHeader>> \o rows)>>] :
        rows \in SeqsUpTo(DataRowChoices, MaxDataRows)}

\* the header rows a generated table starts with
HeaderChoices ==
    { BudgetHeader,
      <<T_Phase, T_Estimate>>,
      <<T_Item, T_Description, T_Cost>>,
      <<T_Phase, T_PhaseCost, T_Notes>>,
      <<T_PROJECT_PHASE, T_Hours, T_EstCOST>>,
      <<T_Phase, T_Description, T_Price>> }

TableChoices ==
    {MakeTable(<<h>>) : h \in HeaderChoices}
    \cup {MakeTable(<<h, [j \in 1..Len(h) |-> IF j = 1 THEN T_LegacyPhase ELSE A_0],
                         [j \in 1..Len(h) |-> IF j = 1 THEN T_Total ELSE <<>>]>>) :
            h \in HeaderChoices}

SelectDocs ==
    {[paragraphs |-> <<>>, tables |-> ts] : ts \in SeqsUpTo(TableChoices, MaxTables)}

ScenarioMapping == DictOf(<<K_discovery, K_build, S_total>>, PhaseAmount)

\* rows at the edges of the removal: a stale row that lacks the estimate
\* cell, and the two total rows the removal passes over by name
RemovalRowChoices ==
    { <<T_Build>>,
      <<T_LegacyPhase, <<>>, A_0>>,
      <<T_TOTAL, <<>>, A_0>>,
      <<T_EstimatedTotal, <<>>, A_0>> }

\* rows at the edges of the total handling: a total row that lacks the
\* estimate cell, and a row that the key 'discovery' and the word 'total'
\* both match
EdgeRowChoices ==
    { <<T_Total>>,
      <<T_DiscoveryTotal, <<>>, A_1>>,
      <<T_Discovery, <<>>, A_1>>,
      <<T_LegacyPhase, <<>>, A_0>> }

EdgeDocs ==
    {[paragraphs |-> <<>>, tables |-> <<MakeTable(<<BudgetHeader>> \o rows)>>] :
        rows \in SeqsUpTo(RemovalRowChoices, MaxDataRows)
                    \cup SeqsUpTo(EdgeRowChoices, MaxDataRows)}

SyncInputs ==
    ((ReconcileDocs \cup EdgeDocs) \X PhaseMappings)
        \cup (SelectDocs \X {ScenarioMapping, <<>>})

InitSync ==
    /\ \E in \in SyncInputs : doc = in[1] /\ phase_mapping = in[2]
    /\ start = doc
    /\ pre = doc
    /\ replacements = <<>>
    /\ variable_dict = <<>>
    /\ budget_placeholders = <<>>
    /\ excel = <<>>
    /\ outcome = "none"
    /\ calls = 0
    /\ pc = "ready"
    /\ tmpfiles = {}
    /\ request = <<>>
    /\ output = <<>>
    /\ session = NoSession

\* self.sync_budget_table(doc, self.phase_mapping)
sync_budget_table ==
    /\ pc = "ready"
    /\ pre' = doc
    /\ doc' = SyncBudgetTable(doc, phase_mapping)
    /\ outcome' = "ok"
    /\ calls' = calls + 1
    /\ pc' = "synced"
    /\ UNCHANGED <<replacements, phase_mapping, variable_dict, budget_placeholders,
                   start, excel, tmpfiles, request, output, session>>

NextSync == sync_budget_table

SpecSync == InitSync /\ [][NextSync]_vars

\* mappings in which one key holds another ('design' in 'design review')
NestedAmount == PhaseAmount @@ (K_design_review :> A_15000)

NestedMappings ==
    {DictOf(q, NestedAmount) :
        q \in {q \in SeqsUpTo({K_design, K_design_review, S_total}, MaxPhases) :
                    IsInjective(q) /\ Len(q) = MaxPhases}}

NestedDocs ==
    {[paragraphs |-> <<>>, tables |-> <<MakeTable(<<BudgetHeader>> \o rows)>>] :
        rows \in SeqsUpTo({<<T_DesignReview, <<>>, A_1>>, <<T_TOTAL, <<>>, A_0>>},
                          MaxDataRows)}

ResyncInputs == SyncInputs \cup (NestedDocs \X NestedMappings)

InitResync ==
    /\ \E in \in ResyncInputs : doc = in[1] /\ phase_mapping = in[2]
    /\ start = doc
    /\ pre = doc
    /\ replacements = <<>>
    /\ variable_dict = <<>>
    /\ budget_placeholders = <<>>
    /\ excel = <<>>
    /\ outcome = "none"
    /\ calls = 0
    /\ pc = "ready"
    /\ tmpfiles = {}
    /\ request = <<>>
    /\ output = <<>>
    /\ session = NoSession

\* self.sync_budget_table(doc, self.phase_mapping) called once more on the
\* document the first call left
sync_budget_table_again ==
    /\ pc = "synced"
    /\ pre' = doc
    /\ doc' = SyncBudgetTable(doc, phase_mapping)
    /\ outcome' = "ok"
    /\ calls' = calls + 1
    /\ pc' = "synced_again"
    /\ UNCHANGED <<replacements, phase_mapping, variable_dict, budget_placeholders,
                   start, excel, tmpfiles, request, output, session>>

NextResync == sync_budget_table \/ sync_budget_table_again

SpecResync == InitResync /\ [][NextResync]_vars

----------------------------------------------------------------------------
(* Properties of sync_budget_table (under SpecSync) *)

\* sync_budget_table has returned, having found a budget table
Reconciled == pc = "synced" /\ BudgetTableIndex(pre.tables) # NoIndex

\* the budget table as the call found it, and as it left it
TableBefore == pre.tables[BudgetTableIndex(pre.tables) + 1]

TableAfter == doc.tables[BudgetTableIndex(pre.tables) + 1]

\* the positions of the data rows of t that have cell number col
DataRowsWith(t, col) == {i \in 2..Len(t.rows) : ~LacksCell(t.rows[i], col)}

RowIds(t) == {t.rows[i].id : i \in 1..Len(t.rows)}

\* key k holds the text or is held by it
Matches(k, text) == Contains(k, text) \/ Contains(text, k)

\* every data row of t has the phase cell and the estimate cell
WellFormed(t) ==
    \A i \in 2..Len(t.rows) :
        ~LacksCell(t.rows[i], PhaseCol(t)) /\ ~LacksCell(t.rows[i], EstimateCol(t))

\* C1 as stated: after sync_budget_table the lowercased phase texts of the
\* data rows are exactly the keys of PhaseMapping, each key has exactly one
\* row, and a total row (phase text holding 'total') is the last row.  (Taken
\* here on the tables whose data rows all have both cells and the mappings
\* that hold the required key 'total'.)
C1_RowsEqualKeys ==
    (Reconciled /\ WellFormed(TableBefore) /\ HasKey(phase_mapping, S_total)) =>
        LET col  == PhaseCol(TableBefore)
            ta   == TableAfter
            rows == DataRowsWith(ta, col)
            text == [i \in rows |-> PhaseLower(ta.rows[i], col)]
        IN  /\ {text[i] : i \in rows} = Keys(phase_mapping)
            /\ \A k \in Keys(phase_mapping) :
                    Cardinality({i \in rows : text[i] = k}) = 1
            /\ \A i \in rows :
                    Contains(S_total, text[i]) => i = Len(ta.rows)

\* C1 amended: after sync_budget_table (on a table whose grid is as wide as
\* its header) every data row that has both cells either matches a key of
\* PhaseMapping (one holds the other) or is a 'total' / 'estimated total'
\* row; every key other than 'total' is matched by at least one data row; and
\* a 'total' / 'estimated total' row that was the last row is still the last
\* row.
C1_RowsMatchKeys ==
    pc = "synced" =>
        \A at \in {BudgetTableIndex(pre.tables)} \ {NoIndex} :
        \A tb \in {pre.tables[at + 1]}, ta \in {doc.tables[at + 1]} :
        \A col \in {PhaseCol(tb)}, est \in {EstimateCol(tb)} :
        \A rows \in {DataRowsWith(ta, col)}, n0 \in {Len(tb.rows)} :
        \A text \in {[i \in rows |-> PhaseLower(ta.rows[i], col)]} :
            /\ \A i \in rows \cap DataRowsWith(ta, est) :
                    \/ \E k \in Keys(phase_mapping) : Matches(k, text[i])
                    \/ text[i] \in {S_total, S_estimated_total}
            /\ \A k \in Keys(phase_mapping) \ {S_total} :
                    \E i \in rows : Matches(k, text[i])
            /\ (/\ n0 \in DataRowsWith(tb, col)
                /\ PhaseLower(tb.rows[n0], col) \in {S_total, S_estimated_total})
               => ta.rows[Len(ta.rows)].id = tb.rows[n0].id

\* C1's case: a stale row was removed, a missing phase was added, and the
\* total row that was last is last
C1_Witness ==
    /\ Reconciled
    /\ LET tb == TableBefore
           ta == TableAfter
       IN  /\ RowIds(tb) \ RowIds(ta) # {}
           /\ RowIds(ta) \ RowIds(tb) # {}
           /\ Len(tb.rows) \in DataRowsWith(tb, PhaseCol(tb))
           /\ PhaseLower(tb.rows[Len(tb.rows)], PhaseCol(tb)) = S_total
           /\ ta.rows[Len(ta.rows)].id = tb.rows[Len(tb.rows)].id

\* the header texts of a table, lowercased
HeaderTexts(t) == {Lower(CellText(t.rows[1].cells[j])) : j \in 1..Len(t.rows[1].cells)}

\* the four conditions of C3 as stated
MeetsStatedConditions(t) ==
    /\ Len(t.rows) >= 2
    /\ Len(t.rows[1].cells) >= 3
    /\ \E h \in HeaderTexts(t) : Contains(S_phase, h)
    /\ \E h \in HeaderTexts(t) : Contains(S_estimate, h) \/ Contains(S_cost, h)

\* the conditions the selection goes by: the estimate/cost header must be a
\* cell that does not hold 'phase'
MeetsConditions(t) ==
    /\ Len(t.rows) >= 2
    /\ Len(t.rows[1].cells) >= 3
    /\ \E h \in HeaderTexts(t) : Contains(S_phase, h)
    /\ \E h \in HeaderTexts(t) :
          /\ ~Contains(S_phase, h)
          /\ Contains(S_estimate, h) \/ Contains(S_cost, h)

C4_OnlyFirstTableChanges ==
    pc = "synced" =>
        /\ outcome = "ok"
        /\ doc.paragraphs = pre.paragraphs
        /\ Len(doc.tables) = Len(pre.tables)
        /\ LET meets == [i \in 1..Len(pre.tables) |-> MeetsConditions(pre.tables[i])]
           IN  /\ \A i \in 1..Len(pre.tables) :
                     doc.tables[i] # pre.tables[i] =>
                        (meets[i] /\ \A j \in 1..(i - 1) : ~meets[j])
               /\ (\A i \in 1..Len(pre.tables) : ~meets[i]) => doc = pre

\* C4's case: two tables qualify, the first was changed and the second left
\* alone
C4_Witness ==
    /\ pc = "synced"
    /\ Len(pre.tables) >= 2
    /\ MeetsConditions(pre.tables[1])
    /\ MeetsConditions(pre.tables[2])
    /\ doc.tables[1] # pre.tables[1]
    /\ doc.tables[2] = pre.tables[2]

----------------------------------------------------------------------------
(* Substitution on its own: replace_text_in_doc on generated documents *)

\* pieces of a generated paragraph text
MaxPieces == 3

K_A == <<"{","A","}">>

K_B == <<"{","B","}">>

PieceChoices == {K_A, K_B, <<"{">>, <<"B", "}">>, <<"x">>}

\* the values of the generated maps: empty, plain, one that ends like a
\* key, one that is a key, and an empty spreadsheet cell
ValueChoices == {<<>>, <<"y">>, <<"B", "}">>, K_A, NaN}

ReplacementMaps ==
    {<<>>}
    \cup {<< <<k, v>> >> : k \in {K_A, K_B}, v \in ValueChoices}
    \cup {<< <<K_A, v>>, <<K_B, w>> >> : v \in ValueChoices \ {NaN}, w \in ValueChoices \ {NaN}}
    \cup {<< <<K_B, v>>, <<K_A, w>> >> : v \in ValueChoices \ {NaN}, w \in ValueChoices \ {NaN}}

\* a paragraph whose text is split over two runs, the first one bold
TwoRunParagraph(t) ==
    [runs |-> <<Run(SubSeq(t, 1, Len(t) \div 2), TRUE),
                Run(SubSeq(t, (Len(t) \div 2) + 1, Len(t)), FALSE)>>,
     alignment |-> "none"]

Reverse(q) == [i \in 1..Len(q) |-> q[Len(q) + 1 - i]]

\* a body paragraph made of the pieces, and a one-cell table holding them in
\* the reverse order
ReplaceDocs ==
    {[paragraphs |-> <<TwoRunParagraph(Join(q, <<>>))>>,
      tables     |-> <<MakeTable(<< <<Join(Reverse(q), <<>>)>> >>)>>] :
        q \in SeqsUpTo(PieceChoices, MaxPieces)}

InitReplace ==
    /\ doc \in ReplaceDocs
    /\ replacements \in ReplacementMaps
    /\ start = doc
    /\ pre = doc
    /\ phase_mapping = <<>>
    /\ variable_dict = <<>>
    /\ budget_placeholders = <<>>
    /\ excel = <<>>
    /\ outcome = "none"
    /\ calls = 0
    /\ pc = "ready"
    /\ tmpfiles = {}
    /\ request = <<>>
    /\ output = <<>>
    /\ session = NoSession

\* self.replace_text_in_doc(doc, replacements), a first and a second time
replace_text_in_doc ==
    /\ pc \in {"ready", "replaced"}
    /\ pre' = doc
    /\ doc' = ReplaceTextInDoc(doc, replacements)
    /\ outcome' = "ok"
    /\ calls' = calls + 1
    /\ pc' = IF pc = "ready" THEN "replaced" ELSE "replaced_again"
    /\ UNCHANGED <<replacements, phase_mapping, variable_dict, budget_placeholders,
                   start, excel, tmpfiles, request, output, session>>

NextReplace == replace_text_in_doc

SpecReplace == InitReplace /\ [][NextReplace]_vars

----------------------------------------------------------------------------
(* Properties of replace_text_in_doc (under SpecReplace) *)

\* the texts of the body paragraphs and of the table-cell paragraphs of d,
\* in document order
ParagraphTexts(d) ==
    [i \in 1..Len(d.paragraphs) |-> ParagraphText(d.paragraphs[i])]
    \o [i \in 1..Len(d.tables) |->
          [r \in 1..Len(d.tables[i].rows) |->
             [c \in 1..Len(d.tables[i].rows[r].cells) |->
                [k \in 1..Len(d.tables[i].rows[r].cells[c]) |->
                    ParagraphText(d.tables[i].rows[r].cells[c][k])]]]]

\* the same, as a set
TextsOf(d) ==
    {ParagraphText(d.paragraphs[i]) : i \in 1..Len(d.paragraphs)}
    \cup UNION {UNION {UNION {{ParagraphText(d.tables[i].rows[r].cells[c][k]) :
                                  k \in 1..Len(d.tables[i].rows[r].cells[c])} :
                              c \in 1..Len(d.tables[i].rows[r].cells)} :
                       r \in 1..Len(d.tables[i].rows)} :
                i \in 1..Len(d.tables)}

HasBrace(t) == \E i \in 1..Len(t) : t[i] \in {"{", "}"}

\* key is "{" name "}" with no brace in name
IsToken(key) ==
    /\ Len(key) >= 2
    /\ key[1] = "{"
    /\ key[Len(key)] = "}"
    /\ ~HasBrace(SubSeq(key, 2, Len(key) - 1))

\* no "{" of t stands inside an open brace: between two "{" there is a "}"
NotNested(t) ==
    \A i, j \in 1..Len(t) :
        (i < j /\ t[i] = "{" /\ t[j] = "{") => \E k \in (i + 1)..(j - 1) : t[k] = "}"

\* every key is a brace-delimited token, no value holds a brace, and no
\* paragraph of d nests braces
CleanInput(d, repl) ==
    /\ \A i \in 1..Len(repl) : IsToken(repl[i][1]) /\ ~HasBrace(PyStr(repl[i][2]))
    /\ \A t \in TextsOf(d) : NotNested(t)

\* C5 as stated: after replace_text_in_doc no body paragraph and no
\* table-cell paragraph holds a key of the map.
C5_NoKeyLeft ==
    pc = "replaced" =>
        \A t \in TextsOf(doc) : \A k \in Keys(replacements) : ~Contains(k, t)

\* C5 amended: when every key is a brace-delimited token "{name}" with no
\* brace in the name, no value of the map holds a brace and no paragraph
\* nests braces (no "{" inside an open "{"), then after replace_text_in_doc no
\* body paragraph and no table-cell paragraph holds a key of the map.
C5_NoKeyLeftOnCleanInput ==
    (pc = "replaced" /\ CleanInput(pre, replacements)) =>
        \A t \in TextsOf(doc) : \A k \in Keys(replacements) : ~Contains(k, t)

\* C5's case: a clean input in which both regions held a key, twice in one of
\* them, and none is left
C5_Witness ==
    /\ pc = "replaced"
    /\ CleanInput(pre, replacements)
    /\ Len(replacements) = 2
    /\ \A t \in TextsOf(pre) : \E k \in Keys(replacements) : Contains(k, t)
    /\ \E t \in TextsOf(pre) : \E k \in Keys(replacements) :
          StrReplace(t, k, <<>>) # StrReplaceFirst(t, k, <<>>)
    /\ \A t \in TextsOf(doc) : \A k \in Keys(replacements) : ~Contains(k, t)

\* no key is a substring of any key's resolved value
NoKeyInValue(repl) ==
    \A i, j \in 1..Len(repl) : ~Contains(repl[i][1], PyStr(repl[j][2]))

\* C6 as stated: when no key is a substring of any resolved value, a second
\* replace_text_in_doc changes no paragraph text.
C6_SecondRunNoChange ==
    (pc = "replaced_again" /\ NoKeyInValue(replacements)) =>
        ParagraphTexts(doc) = ParagraphTexts(pre)

\* C6 amended: when every key is a brace-delimited token "{name}" with no
\* brace in the name, no value of the map holds a brace and no paragraph of
\* the document nests braces, a second replace_text_in_doc changes no
\* paragraph text.
C6_SecondRunNoChangeOnCleanInput ==
    (pc = "replaced_again" /\ CleanInput(start, replacements)) =>
        ParagraphTexts(doc) = ParagraphTexts(pre)

\* C6's case: a clean input the first run changed in both regions (two keys
\* in one paragraph) and the second run left alone
C6_Witness ==
    /\ pc = "replaced_again"
    /\ CleanInput(start, replacements)
    /\ \E t \in TextsOf(start) : \A k \in Keys(replacements) : Contains(k, t)
    /\ Len(replacements) = 2
    /\ \A i \in 1..Len(ParagraphTexts(start)) : ParagraphTexts(start)[i] # ParagraphTexts(pre)[i]
    /\ ParagraphTexts(doc) = ParagraphTexts(pre)

----------------------------------------------------------------------------
(* Extraction on its own: process_excel_file on generated workbooks *)

T_CLIENT_NAME == <<"{","C","L","I","E","N","T"," ","N","A","M","E","}">>

T_AcmeCo == <<"A","c","m","e"," ","C","o">>

T_DISCOVERY_KEY == <<"{","D","I","S","C","O","V","E","R","Y","}">>

T_na == <<"n","/","a">>

T_START == <<"{","S","T","A","R","T","}">>

T_Midnight == <<"2","0","2","5","-","0","8","-","1","3"," ","0","0",":","0","0",":","0","0">>

T_NOTE == <<"{","N","O","T","E","}">>

T_ProjectTotal == <<"P","r","o","j","e","c","t"," ","T","o","t","a","l">>

T_DISCOVERY_padded == <<" ","D","I","S","C","O","V","E","R","Y"," ">>

T_TBD == <<"T","B","D">>

T_Spaces == <<" "," ">>

T_BuildTest == <<"B","u","i","l","d"," ","&"," ","T","e","s","t">>

T_inf == <<"i","n","f">>

T_12345_67 == <<"1","2","3","4","5",".","6","7">>

T_minus7_5 == <<" ","-","7",".","5"," ">>

\* rows of a generated Budget sheet (row 0 included)
MaxBudgetRows == 3

\* generated amounts run over the halves -MaxHalves/2 .. MaxHalves/2
MaxHalves == 5

EmptyCell == [kind |-> "nan", num |-> 0, den |-> 1, text |-> <<>>]

NumCell(n, d) == [kind |-> "num", num |-> n, den |-> d, text |-> <<>>]

StrCell(t) == [kind |-> "str", num |-> 0, den |-> 1, text |-> t]

BudgetRow(p, a) == [phase |-> p, amount |-> a]

Workbook(vars_rows, budget_rows) ==
    [sheets      |-> {S_Variables, S_Budget},
     var_columns |-> {S_VariableComponent, S_ExampleValue},
     variables   |-> vars_rows,
     budget_cols |-> 6,
     budget      |-> budget_rows]

\* the Variables sheets of the generated workbooks: empty; the scenario's;
\* keys that collide with budget placeholders and a repeated key; a date and
\* an empty value
VariablesChoices ==
    { <<>>,
      << <<T_CLIENT_NAME, T_AcmeCo>> >>,
      << <<T_DISCOVERY_KEY, T_na>>, <<S_TOTAL, T_na>>, <<T_DISCOVERY_KEY, T_TBD>> >>,
      << <<T_START, T_Midnight>>, <<T_NOTE, NaN>> >> }

HeaderRow == BudgetRow(T_Phase, StrCell(T_Estimate))

\* the rows of the generated Budget sheets
BudgetRowChoices ==
    { HeaderRow,
      BudgetRow(T_Discovery, NumCell(5000, 1)),
      BudgetRow(T_Total, NumCell(20000, 1)),
      BudgetRow(T_ProjectTotal, NumCell(25000, 1)),
      BudgetRow(NaN, EmptyCell),
      BudgetRow(T_DISCOVERY_padded, StrCell(T_TBD)),
      BudgetRow(T_BuildTest, EmptyCell),
      BudgetRow(T_Spaces, NumCell(5000, 1)) }

\* the amounts of the one-phase Budget sheets: small ones of either sign,
\* whole and fractional, and large ones
AmountChoices ==
    {NumCell(n, d) : n \in (-MaxHalves)..MaxHalves, d \in {1, 2}}
    \cup {NumCell(999, 1), NumCell(1000, 1), NumCell(-1000, 1), NumCell(1234567, 100),
          NumCell(-1234567, 100), NumCell(99999999, 100), NumCell(1000000, 1),
          NumCell(-2000001, 2), NumCell(1234567890, 1),
          StrCell(T_12345_67), StrCell(T_minus7_5)}

ScenarioWorkbook ==
    Workbook(<< <<T_CLIENT_NAME, T_AcmeCo>> >>,
             <<HeaderRow,
               BudgetRow(T_Discovery, NumCell(5000, 1)),
               BudgetRow(T_Build, NumCell(15000, 1)),
               BudgetRow(T_Total, NumCell(20000, 1))>>)

\* workbooks process_excel_file raises on: no Variables sheet, no "Example
\* Value" column, no Budget sheet, a Budget sheet narrower than column F, an
\* infinite amount
BrokenWorkbooks ==
    { [ScenarioWorkbook EXCEPT !.sheets = {S_Budget}],
      [ScenarioWorkbook EXCEPT !.var_columns = {S_VariableComponent}],
      [ScenarioWorkbook EXCEPT !.sheets = {S_Variables}],
      [ScenarioWorkbook EXCEPT !.budget_cols = 3],
      Workbook(<< <<T_CLIENT_NAME, T_AcmeCo>> >>,
               <<HeaderRow, BudgetRow(T_Discovery, StrCell(T_inf))>>) }

Workbooks ==
    {Workbook(v, b) : v \in VariablesChoices, b \in SeqsUpTo(BudgetRowChoices, MaxBudgetRows)}
    \cup {Workbook(<< <<T_CLIENT_NAME, T_AcmeCo>> >>, <<HeaderRow, BudgetRow(T_Discovery, a)>>) :
            a \in AmountChoices}
    \cup {ScenarioWorkbook, [ScenarioWorkbook EXCEPT !.budget_cols = 3, !.budget = <<>>]}
    \cup BrokenWorkbooks

\* the workbooks of a second call on the same generator
RepeatWorkbooks == {ScenarioWorkbook} \cup BrokenWorkbooks

EmptyDoc == [paragraphs |-> <<>>, tables |-> <<>>]

InitExtract ==
    /\ replacements = <<>>
    /\ phase_mapping = <<>>
    /\ variable_dict = <<>>
    /\ budget_placeholders = <<>>
    /\ doc = EmptyDoc
    /\ start = EmptyDoc
    /\ pre = EmptyGenerator
    /\ excel = <<>>
    /\ outcome = "none"
    /\ calls = 0
    /\ pc = "ready"
    /\ tmpfiles = {}
    /\ request = <<>>
    /\ output = <<>>
    /\ session = NoSession

\* generator.process_excel_file(excel_file): the fields are reset, the upload
\* is copied to a temporary file, both sheets are read, the fields are
\* assigned, and the temporary file is unlinked in the finally clause.
process_excel_file ==
    /\ pc \in {"ready", "extracted"}
    /\ \E xl \in (IF pc = "ready" THEN Workbooks ELSE RepeatWorkbooks) :
          \E g \in {GeneratorAfter(xl)} :
             /\ excel' = xl
             /\ replacements' = g.replacements
             /\ phase_mapping' = g.phase_mapping
             /\ variable_dict' = g.variable_dict
             /\ budget_placeholders' = g.budget_placeholders
             /\ outcome' = IF ExtractionSucceeds(xl) THEN "ok" ELSE "error"
    /\ pre' = Generator
    /\ calls' = calls + 1
    /\ pc' = IF pc = "ready" THEN "extracted" ELSE "extracted_again"
    /\ tmpfiles' = tmpfiles
    /\ UNCHANGED <<doc, start, request, output, session>>

NextExtract == process_excel_file

SpecExtract == InitExtract /\ [][NextExtract]_vars

----------------------------------------------------------------------------
(* Claims about extraction (SpecExtract) *)

T_dm12345 == <<"$","-","1","2",",","3","4","5">>

\* C7: whenever the extracted phase mapping has the key 'total', the
\* placeholder map has both {TOTAL} and {PROJECTTOTAL}, and both carry the
\* amount of 'total', whatever the other phases of the Budget sheet are.
C7_TotalPlaceholders ==
    (outcome = "ok" /\ HasKey(phase_mapping, S_total)) =>
        /\ HasKey(replacements, S_TOTAL)
        /\ HasKey(replacements, S_PROJECTTOTAL)
        /\ Get(replacements, S_TOTAL) = Get(phase_mapping, S_total)
        /\ Get(replacements, S_PROJECTTOTAL) = Get(phase_mapping, S_total)

\* C8: after a successful extraction the placeholder map has exactly the keys
\* of the variable map and of the budget placeholders; a key of the budget
\* placeholders carries the budget value, any other key the variable value.
C8_BudgetOverlaysVariables ==
    outcome = "ok" =>
        /\ Keys(replacements) = Keys(variable_dict) \cup Keys(budget_placeholders)
        /\ \A k \in Keys(budget_placeholders) :
              Get(replacements, k) = Get(budget_placeholders, k)
        /\ \A k \in Keys(variable_dict) \ Keys(budget_placeholders) :
              Get(replacements, k) = Get(variable_dict, k)

\* a key of both maps with different values, resolved to the budget one
C8_Witness ==
    /\ outcome = "ok"
    /\ \E k \in Keys(variable_dict) \cap Keys(budget_placeholders) :
          /\ Get(variable_dict, k) # Get(budget_placeholders, k)
          /\ Get(replacements, k) = Get(budget_placeholders, k)

\* the digit groups of a "$"-prefixed amount, its sign taken off
MoneyGroups(t) ==
    LET body == Tail(t)
    IN  Split(IF body # <<>> /\ body[1] = "-" THEN Tail(body) ELSE body, ",")

\* "$", an optional "-", then digits in groups of three separated by commas,
\* the leading group of one to three digits with no leading zero
IsMoney(t) ==
    /\ Len(t) >= 2
    /\ t[1] = "$"
    /\ LET g == MoneyGroups(t)
       IN  /\ \A i \in 1..Len(g) : AllDigits(g[i])
           /\ Len(g[1]) \in 1..3
           /\ \A i \in 2..Len(g) : Len(g[i]) = 3
           /\ (g[1][1] = "0" => (Len(g) = 1 /\ Len(g[1]) = 1))

\* the integer a "$"-prefixed amount reads as
MoneyValue(t) ==
    LET g == MoneyGroups(t)
        n == DigitsToNat(Join(g, <<>>))
    IN  IF t[2] = "-" THEN -n ELSE n

\* the data rows of the workbook that carry a number in column F and are the
\* last row of their phase
NumericRows ==
    {i \in 2..Len(excel.budget) :
        /\ excel.budget[i].amount.kind = "num"
        /\ excel.budget[i].phase # NaN
        /\ Strip(excel.budget[i].phase) # <<>>
        /\ \A j \in (i + 1)..Len(excel.budget) :
              excel.budget[j].phase = NaN
              \/ Lower(Strip(excel.budget[j].phase)) # Lower(Strip(excel.budget[i].phase))}

StoredFor(i) == Get(phase_mapping, Lower(Strip(excel.budget[i].phase)))

\* C9 as stated: the value stored for a numeric amount num/den is "$" and
\* floor(num/den) with thousands separators, negative and fractional amounts
\* included.
C9_FloorOfAmount ==
    outcome = "ok" =>
        \A i \in NumericRows :
            LET a == excel.budget[i].amount
                t == StoredFor(i)
            IN  /\ IsMoney(t)
                /\ MoneyValue(t) * a.den <= a.num
                /\ a.num < (MoneyValue(t) + 1) * a.den

\* C9: the value stored for a numeric amount num/den is "$" and the amount
\* truncated toward zero, written with thousands separators: the floor of a
\* non-negative amount, the ceiling of a negative one.
C9_TruncatedAmount ==
    outcome = "ok" =>
        \A i \in NumericRows :
            LET a == excel.budget[i].amount
                t == StoredFor(i)
                v == MoneyValue(t)
            IN  /\ IsMoney(t)
                /\ (a.num >= 0 => (v * a.den <= a.num /\ a.num < (v + 1) * a.den))
                /\ (a.num < 0 => ((v - 1) * a.den < a.num /\ a.num <= v * a.den))
                /\ (t[2] = "-" => v < 0)

\* -12345.67 was stored as "$-12,345"
C9_Witness ==
    /\ outcome = "ok"
    /\ \E i \in NumericRows :
          /\ excel.budget[i].amount = NumCell(-1234567, 100)
          /\ StoredFor(i) = T_dm12345

\* C10: when process_excel_file raises, the generator's replacements,
\* phase_mapping, variable_dict and budget_placeholders are all empty on
\* exit, whatever an earlier successful call had left in them.
C10_FailedCallLeavesNothing ==
    outcome = "error" => Generator = EmptyGenerator

\* a call that failed after its Variables sheet was read, on a generator an
\* earlier call had filled
C10_Witness ==
    /\ outcome = "error"
    /\ calls = 2
    /\ pre.replacements # <<>>
    /\ pre.phase_mapping # <<>>
    /\ ExtractVariables(excel).ok
    /\ ExtractVariables(excel).dict # <<>>
    /\ Generator = EmptyGenerator

----------------------------------------------------------------------------
(* The preview and generate requests: the app.py handlers around            *)
(* SOWGenerator.generate_preview and SOWGenerator.generate_sow              *)

T_ClientPlaceholder == <<"C","l","i","e","n","t",":"," ","{","C","L","I","E","N","T"," ","N","A","M","E","}">>

T_ClientAcme == <<"C","l","i","e","n","t",":"," ","A","c","m","e"," ","C","o">>

T_d0 == <<"$","0">>

T_d15000 == <<"$","1","5",",","0","0","0">>

T_d5000 == <<"$","5",",","0","0","0">>

T_d20000 == <<"$","2","0",",","0","0","0">>

T_DOCUMENT_PREVIEW == <<"D","O","C","U","M","E","N","T"," ","P","R","E","V","I","E","W">>

T_TableOpen == <<"-","-","-"," ","T","A","B","L","E"," ">>

T_TableClose == <<" ","-","-","-">>

T_Bar == <<" ","|"," ">>

T_Scope == <<"S","c","o","p","e"," ","o","f"," ","{","D","I","S","C","O","V","E","R","Y","}"," ","w","o","r","k">>

NL == <<"\n">>

\* "=" * 50
RuleWidth == 50

Rule == [i \in 1..RuleWidth |-> "="]

\* " | ".join(cell.text.strip() for cell in row.cells)
RowText(row) == Join([j \in 1..Len(row.cells) |-> Strip(CellText(row.cells[j]))], T_Bar)

\* the lines generate_preview collects for table number table_idx
TableLines(t, table_idx) ==
    <<NL \o T_TableOpen \o NatToDigits(table_idx + 1) \o T_TableClose>>
    \o SelectSeq([i \in 1..Len(t.rows) |-> RowText(t.rows[i])], LAMBDA x : Strip(x) # <<>>)

RECURSIVE AllTableLines(_, _)
AllTableLines(tables, table_idx) ==
    IF table_idx >= Len(tables) THEN <<>>
    ELSE TableLines(tables[table_idx + 1], table_idx) \o AllTableLines(tables, table_idx + 1)

\* the text generate_preview returns for the processed document d
PreviewText(d) ==
    Join(<<T_DOCUMENT_PREVIEW, Rule, <<>> >>
         \o SelectSeq([i \in 1..Len(d.paragraphs) |-> ParagraphText(d.paragraphs[i])],
                      LAMBDA x : Strip(x) # <<>>)
         \o AllTableLines(d.tables, 0),
         NL)

Paragraph(t) == [runs |-> <<Run(t, FALSE)>>, alignment |-> "none"]

\* the scenario's template with a two-column budget table
ScenarioTemplate2 ==
    [paragraphs |-> <<Paragraph(T_ClientPlaceholder)>>,
     tables     |-> <<MakeTable(<< <<T_Phase, T_Estimate>>,
                                   <<T_LegacyPhase, T_d0>>,
                                   <<T_Total, <<>> >> >>)>>]

\* the same with a Description column between the two
ScenarioTemplate3 ==
    [paragraphs |-> <<Paragraph(T_ClientPlaceholder)>>,
     tables     |-> <<MakeTable(<< <<T_Phase, T_Description, T_Estimate>>,
                                   <<T_LegacyPhase, <<>>, T_d0>>,
                                   <<T_Total, <<>>, <<>> >> >>)>>]

\* the templates of the requests: the scenario's two, one without a table,
\* one whose budget table follows another table and has no total row, and an
\* empty document
Templates ==
    { ScenarioTemplate2,
      ScenarioTemplate3,
      [paragraphs |-> <<Paragraph(T_ClientPlaceholder), Paragraph(T_Scope)>>, tables |-> <<>>],
      [paragraphs |-> <<Paragraph(T_Scope)>>,
       tables     |-> <<MakeTable(<< <<T_Item, T_Price>>, <<T_ClientPlaceholder, T_d0>> >>),
                        MakeTable(<< <<T_PROJECT_PHASE, T_Hours, T_EstCOST>>,
                                     <<T_Discovery, <<>>, T_d0>>,
                                     <<T_LegacyPhase, <<>>, T_d0>> >>)>>],
      EmptyDoc }

\* the spreadsheets of the requests
RequestWorkbooks ==
    { ScenarioWorkbook,
      Workbook(<<>>, <<>>),
      Workbook(<< <<T_DISCOVERY_KEY, T_na>> >>,
               <<HeaderRow, BudgetRow(T_Discovery, NumCell(5000, 1))>>),
      Workbook(<< <<T_CLIENT_NAME, NaN>> >>,
               <<HeaderRow, BudgetRow(T_Total, NumCell(20000, 1)),
                 BudgetRow(T_ProjectTotal, NumCell(25000, 1))>>) }
    \cup BrokenWorkbooks

Init ==
    /\ replacements = <<>>
    /\ phase_mapping = <<>>
    /\ variable_dict = <<>>
    /\ budget_placeholders = <<>>
    /\ doc = EmptyDoc
    /\ start = EmptyDoc
    /\ pre = EmptyDoc
    /\ excel = <<>>
    /\ outcome = "none"
    /\ calls = 0
    /\ pc = "idle"
    /\ tmpfiles = {}
    /\ request = <<>>
    /\ output = <<>>
    /\ session = NoSession

\* The handler of either button up to the call of the generator: a new
\* SOWGenerator, the two uploads written to NamedTemporaryFile(delete=False).
\* word_ok tells whether the uploaded template is a readable .docx.
handler_stage ==
    /\ pc = "idle"
    /\ \E xl \in RequestWorkbooks, t \in Templates,
          k \in {"preview", "generate"}, ok \in BOOLEAN :
          /\ excel' = xl
          /\ start' = t
          /\ request' = [kind |-> k, word_ok |-> ok]
    /\ replacements' = <<>>
    /\ phase_mapping' = <<>>
    /\ variable_dict' = <<>>
    /\ budget_placeholders' = <<>>
    /\ tmpfiles' = tmpfiles \cup {"excel_path", "word_path"}
    /\ pc' = "staged"
    /\ UNCHANGED <<doc, pre, outcome, calls, output, session>>

\* replacements = self.process_excel_file(excel_content), its own temporary
\* file created and unlinked inside the call; an exception leaves the
\* generator function
generate_process_excel_file ==
    /\ pc = "staged"
    /\ \E g \in {GeneratorAfter(excel)} :
          /\ replacements' = g.replacements
          /\ phase_mapping' = g.phase_mapping
          /\ variable_dict' = g.variable_dict
          /\ budget_placeholders' = g.budget_placeholders
    /\ calls' = calls + 1
    /\ pc' = IF ExtractionSucceeds(excel) THEN "extracted" ELSE "raised"
    /\ UNCHANGED <<doc, start, pre, excel, outcome, tmpfiles, request, output, session>>

\* doc = Document(word_path)
generate_load_document ==
    /\ pc = "extracted"
    /\ doc' = IF request.word_ok THEN start ELSE doc
    /\ pc' = IF request.word_ok THEN "loaded" ELSE "raised"
    /\ UNCHANGED <<replacements, phase_mapping, variable_dict, budget_placeholders,
                   start, pre, excel, outcome, calls, tmpfiles, request, output, session>>

\* self.replace_text_in_doc(doc, replacements)
generate_replace_text_in_doc ==
    /\ pc = "loaded"
    /\ doc' = ReplaceTextInDoc(doc, replacements)
    /\ pc' = "replaced"
    /\ UNCHANGED <<replacements, phase_mapping, variable_dict, budget_placeholders,
                   start, pre, excel, outcome, calls, tmpfiles, request, output, session>>

\* self.sync_budget_table(doc, self.phase_mapping)
generate_sync_budget_table ==
    /\ pc = "replaced"
    /\ pre' = doc
    /\ doc' = SyncBudgetTable(doc, phase_mapping)
    /\ pc' = "synced"
    /\ UNCHANGED <<replacements, phase_mapping, variable_dict, budget_placeholders,
                   start, excel, outcome, calls, tmpfiles, request, output, session>>

\* the end of generate_preview (the preview text) or of generate_sow (the
\* document saved to a buffer)
generate_return ==
    /\ pc = "synced"
    /\ output' = IF request.kind = "preview"
                 THEN [kind |-> "preview", text |-> PreviewText(doc)]
                 ELSE [kind |-> "docx", document |-> doc]
    /\ pc' = "returned"
    /\ UNCHANGED <<replacements, phase_mapping, variable_dict, budget_placeholders,
                   doc, start, pre, excel, outcome, calls, tmpfiles, request, session>>

\* os.unlink(excel_path); os.unlink(word_path), then the preview is stored
\* or the download button shown
handler_cleanup ==
    /\ pc = "returned"
    /\ tmpfiles' = tmpfiles \ {"excel_path", "word_path"}
    /\ outcome' = "ok"
    /\ pc' = "done"
    /\ UNCHANGED <<replacements, phase_mapping, variable_dict, budget_placeholders,
                   doc, start, pre, excel, calls, request, output, session>>

\* except Exception as e: st.error(...)
handler_except ==
    /\ pc = "raised"
    /\ outcome' = "error"
    /\ pc' = "done"
    /\ UNCHANGED <<replacements, phase_mapping, variable_dict, budget_placeholders,
                   doc, start, pre, excel, calls, tmpfiles, request, output, session>>

\* runs of the PlaceholderUI script in one session
MaxRuns == 2

\* a dict that is neither None nor empty
Truthy(d) == d # None /\ d # <<>>

\* load_variables_from_excel(excel_file): (replacements, phase_mapping), or
\* (None, None) when anything raised
LoadVariablesFromExcel(xl) ==
    IF ExtractionSucceeds(xl)
    THEN [replacements  |-> MergeReplacements(ExtractVariables(xl).dict,
                                              BudgetPlaceholders(ExtractBudget(xl).dict)),
          phase_mapping |-> ExtractBudget(xl).dict]
    ELSE [replacements |-> None, phase_mapping |-> None]

\* The user sets the uploads of the PlaceholderUI page and the script runs:
\* the first time both files are chosen, later the spreadsheet is replaced.
script_upload ==
    /\ pc \in {"idle", "script_generated", "script_failed", "script_skipped"}
    /\ calls < MaxRuns
    /\ \E xl \in RequestWorkbooks : excel' = xl
    /\ IF pc = "idle"
       THEN \E t \in Templates, ok \in BOOLEAN :
               /\ start' = t
               /\ request' = [kind |-> "script", word_ok |-> ok]
       ELSE UNCHANGED <<start, request>>
    /\ pc' = "script_uploaded"
    /\ UNCHANGED <<replacements, phase_mapping, variable_dict, budget_placeholders,
                   doc, pre, outcome, calls, tmpfiles, output, session>>

\* "Process Excel file if uploaded": the session keeps the new maps only when
\* the returned replacements are truthy
script_load_variables ==
    /\ pc = "script_uploaded"
    /\ \E loaded \in {LoadVariablesFromExcel(excel)} :
          /\ session' = IF Truthy(loaded.replacements) THEN loaded ELSE session
          /\ outcome' = IF loaded.replacements = None THEN "error" ELSE "ok"
    /\ calls' = calls + 1
    /\ pc' = "script_loaded"
    /\ UNCHANGED <<replacements, phase_mapping, variable_dict, budget_placeholders,
                   doc, start, pre, excel, tmpfiles, request, output>>

\* "Generate and Download SOW Section" with its condition true:
\* generate_sow(word_file, session replacements, session phase_mapping),
\* which returns None when the template cannot be read
script_generate_sow ==
    /\ pc = "script_loaded"
    /\ Truthy(session.replacements)
    /\ IF request.word_ok
       THEN /\ pre' = ReplaceTextInDoc(start, session.replacements)
            /\ doc' = SyncBudgetTable(pre', session.phase_mapping)
            /\ output' = [kind |-> "docx", document |-> doc']
            /\ pc' = "script_generated"
            /\ UNCHANGED outcome
       ELSE /\ outcome' = "error"
            /\ pc' = "script_failed"
            /\ UNCHANGED <<pre, doc, output>>
    /\ UNCHANGED <<replacements, phase_mapping, variable_dict, budget_placeholders,
                   start, excel, calls, tmpfiles, request, session>>

\* the same section with its condition false: nothing is generated
script_skip ==
    /\ pc = "script_loaded"
    /\ ~Truthy(session.replacements)
    /\ pc' = "script_skipped"
    /\ UNCHANGED <<replacements, phase_mapping, variable_dict, budget_placeholders,
                   doc, start, pre, excel, outcome, calls, tmpfiles, request, output,
                   session>>

Next ==
    \/ handler_stage
    \/ generate_process_excel_file
    \/ generate_load_document
    \/ generate_replace_text_in_doc
    \/ generate_sync_budget_table
    \/ generate_return
    \/ handler_cleanup
    \/ handler_except
    \/ script_upload
    \/ script_load_variables
    \/ script_generate_sow
    \/ script_skip

Spec == Init /\ [][Next]_vars

----------------------------------------------------------------------------
(* The end-to-end scenario (under Spec) *)

\* a scenario request has ended well
ScenarioDone(template) ==
    /\ pc = "done"
    /\ outcome = "ok"
    /\ excel = ScenarioWorkbook
    /\ start = template

\* the (phase, estimate) texts of the rows of the first table of d, the phase
\* in the first cell and the estimate in the last
PhaseEstimates(d) ==
    LET t == d.tables[1]
    IN  [i \in 1..Len(t.rows) |->
            <<Strip(CellText(t.rows[i].cells[1])),
              Strip(CellText(t.rows[i].cells[Len(t.rows[i].cells)]))>>]

\* the text is "Client: Acme Co"; the data rows are Discovery $5,000, Build
\* $15,000 and Total $20,000, each once, Total last; no Legacy Phase row
ScenarioOutcome(d) ==
    /\ ParagraphText(d.paragraphs[1]) = T_ClientAcme
    /\ Len(d.tables) = 1
    /\ LET pe == PhaseEstimates(d)
       IN  /\ Len(pe) = 4
           /\ {pe[i] : i \in 2..3} = {<<T_Discovery, T_d5000>>, <<T_Build, T_d15000>>}
           /\ pe[4] = <<T_Total, T_d20000>>
           /\ \A i \in 1..Len(pe) : pe[i][1] # T_LegacyPhase

\* C2 as stated: the scenario run on the template with the two-column table
\* "Phase | Estimate" yields the text "Client: Acme Co" and the rows
\* Discovery ($5,000), Build ($15,000), Total ($20,000), Legacy Phase removed.
C2_ScenarioTwoColumns == ScenarioDone(ScenarioTemplate2) => ScenarioOutcome(doc)

\* C2: the scenario run on the template whose table has three columns
\* "Phase | Description | Estimate" yields the text "Client: Acme Co" and the
\* data rows Discovery ($5,000), Build ($15,000), Total ($20,000), Total
\* last and Legacy Phase removed; a preview and a saved document agree.
C2_ScenarioThreeColumns ==
    ScenarioDone(ScenarioTemplate3) =>
        /\ ScenarioOutcome(doc)
        /\ output.kind = "docx" => output.document = doc
        /\ output.kind = "preview" => output.text = PreviewText(doc)

C2_Witness ==
    /\ ScenarioDone(ScenarioTemplate3)
    /\ ParagraphText(doc.paragraphs[1]) = T_ClientAcme
    /\ PhaseEstimates(doc)[4] = <<T_Total, T_d20000>>
    /\ PhaseEstimates(start)[2] = <<T_LegacyPhase, T_d0>>

----------------------------------------------------------------------------
(* Claims about the requests (under Spec) *)

\* the positions of a flow at which the template document has been loaded
\* (and then substituted, reconciled, serialized)
DocumentStages == {"loaded", "replaced", "synced", "returned", "script_generated"}

\* C11: in every generation flow (generate_sow, generate_preview and the
\* PlaceholderUI script), the template document is loaded, substituted,
\* reconciled or serialized only when the extraction of the spreadsheet
\* currently supplied has succeeded.
C11_DocumentOnlyAfterExtraction ==
    pc \in DocumentStages => ExtractionSucceeds(excel)

\* C12: when a preview or generate request has ended, on the success path or
\* on a failure path, no temporary staging file of the request exists.
C12_NoStagingFileLeft ==
    pc = "done" => tmpfiles = {}

----------------------------------------------------------------------------
(* The paragraphs replace_text_in_doc leaves (under SpecReplace) *)

RECURSIVE ReplaceAll(_, _, _)
\* s with every occurrence of the non-empty text old, taken from the left
\* and not overlapping, turned into new
ReplaceAll(s, old, new) ==
    IF Len(s) < Len(old) THEN s
    ELSE IF SubSeq(s, 1, Len(old)) = old
    THEN new \o ReplaceAll(SubSeq(s, Len(old) + 1, Len(s)), old, new)
    ELSE <<Head(s)>> \o ReplaceAll(Tail(s), old, new)

RECURSIVE ApplyAll(_, _)
\* every pair of the map applied to text t, in the order of the map
ApplyAll(t, repl) ==
    IF repl = <<>> THEN t
    ELSE ApplyAll(ReplaceAll(t, repl[1][1], PyStr(repl[1][2])), Tail(repl))

\* paragraph q is what the call is to make of paragraph p: its text is the
\* map applied to the text of p; when that changed, the first run holds the
\* whole text and every other run is empty; when it did not, q is p
Substituted(p, q, repl) ==
    /\ ParagraphText(q) = ApplyAll(ParagraphText(p), repl)
    /\ IF ParagraphText(q) # ParagraphText(p)
       THEN /\ q.runs # <<>>
            /\ q.runs[1].text = ParagraphText(q)
            /\ \A i \in 2..Len(q.runs) : q.runs[i].text = <<>>
            /\ Len(p.runs) > 0 => Len(q.runs) = Len(p.runs)
       ELSE q = p

\* C13: replace_text_in_doc sets the text of every body paragraph and of
\* every table-cell paragraph to the result of applying each (key, value) of
\* the map, in map order, as a literal replace-all on the flattened text; a
\* paragraph whose text changed holds it in a single run, the first existing
\* one, and a paragraph whose text did not change keeps its runs as they were.
C13_ParagraphsSubstituted ==
    pc = "replaced" =>
        /\ Len(doc.paragraphs) = Len(pre.paragraphs)
        /\ \A i \in 1..Len(pre.paragraphs) :
              Substituted(pre.paragraphs[i], doc.paragraphs[i], replacements)
        /\ Len(doc.tables) = Len(pre.tables)
        /\ \A t \in 1..Len(pre.tables) :
              /\ Len(doc.tables[t].rows) = Len(pre.tables[t].rows)
              /\ \A r \in 1..Len(pre.tables[t].rows) :
                    LET before == pre.tables[t].rows[r].cells
                        after  == doc.tables[t].rows[r].cells
                    IN  /\ Len(after) = Len(before)
                        /\ \A c \in 1..Len(before) :
                              /\ Len(after[c]) = Len(before[c])
                              /\ \A k \in 1..Len(before[c]) :
                                    Substituted(before[c][k], after[c][k], replacements)

\* C13's case: a body paragraph of two non-empty runs was changed and a
\* table-cell paragraph holding a brace was left as it was
C13_Witness ==
    /\ pc = "replaced"
    /\ replacements # <<>>
    /\ LET p == pre.paragraphs[1]
           q == doc.paragraphs[1]
       IN  /\ Len(p.runs) = 2
           /\ p.runs[1].text # <<>>
           /\ p.runs[2].text # <<>>
           /\ ParagraphText(q) # ParagraphText(p)
           /\ q.runs[1].text = ParagraphText(q)
           /\ q.runs[2].text = <<>>
    /\ LET c == pre.tables[1].rows[1].cells[1]
       IN  /\ HasBrace(ParagraphText(c[1]))
           /\ doc.tables[1].rows[1].cells[1] = c

----------------------------------------------------------------------------
(* The rows sync_budget_table leaves (under SpecSync) *)

\* the position in table t of the row with identity id, 0 when it has none
RowOf(t, id) ==
    LET at == {j \in 1..Len(t.rows) : t.rows[j].id = id}
    IN  IF at = {} THEN 0 ELSE CHOOSE j \in at : TRUE

\* the positions in the mapping of the keys that hold text or are held by it
MatchingKeys(pm, text) == {n \in 1..Len(pm) : Matches(pm[n][1], text)}

\* C14: a data row that has the phase and the estimate cell, whose phase text
\* does not hold 'total' and which some key of PhaseMapping matches (one
\* holds the other), is still there on return, its phase cell as it was and
\* its estimate text the amount of the first matching key in mapping order,
\* the empty amount included.
C14_MatchedRowsUpdated ==
    pc = "synced" =>
        \A at \in {BudgetTableIndex(pre.tables)} \ {NoIndex} :
        \A tb \in {pre.tables[at + 1]}, ta \in {doc.tables[at + 1]} :
        \A col \in {PhaseCol(tb)}, est \in {EstimateCol(tb)} :
        \A i \in DataRowsWith(tb, col) \cap DataRowsWith(tb, est) :
        \A text \in {PhaseLower(tb.rows[i], col)} :
        \A hits \in {MatchingKeys(phase_mapping, text)} :
            (~Contains(S_total, text) /\ hits # {}) =>
                \E first \in hits :
                \E j \in {RowOf(ta, tb.rows[i].id)} :
                    /\ \A m \in hits : first <= m
                    /\ j # 0
                    /\ ta.rows[j].cells[col + 1] = tb.rows[i].cells[col + 1]
                    /\ CellText(ta.rows[j].cells[est + 1]) = phase_mapping[first][2]

\* C14's case: a row matched by two keys took the amount of the first, and a
\* row whose key has the empty amount had its estimate emptied
C14_Witness ==
    /\ Reconciled
    /\ LET tb  == TableBefore
           ta  == TableAfter
           col == PhaseCol(tb)
           est == EstimateCol(tb)
           ok  == DataRowsWith(tb, col) \cap DataRowsWith(tb, est)
       IN  /\ \E i \in ok :
                 LET hits == MatchingKeys(phase_mapping, PhaseLower(tb.rows[i], col))
                 IN  /\ Cardinality(hits) = 2
                     /\ phase_mapping[1][2] # phase_mapping[2][2]
                     /\ CellText(ta.rows[RowOf(ta, tb.rows[i].id)].cells[est + 1])
                           = phase_mapping[1][2]
           /\ \E i \in ok :
                 /\ PhaseLower(tb.rows[i], col) = Lower(T_DesignReview)
                 /\ CellText(tb.rows[i].cells[est + 1]) # <<>>
                 /\ RowOf(ta, tb.rows[i].id) # 0
                 /\ CellText(ta.rows[RowOf(ta, tb.rows[i].id)].cells[est + 1]) = <<>>

\* the ids of the data rows of t, among those at the positions in rows, that
\* match no key of pm and are no 'total' / 'estimated total' row
StaleIds(t, pm, rows) ==
    {t.rows[i].id : i \in
        {i \in rows :
            LET text == PhaseLower(t.rows[i], PhaseCol(t))
            IN  /\ MatchingKeys(pm, text) = {}
                /\ text \notin {S_total, S_estimated_total}}}

\* C15 as stated: the rows absent on return are exactly the data rows that
\* match no key of PhaseMapping and are no 'total' / 'estimated total' row
\* (taken over the rows that have a phase text at all).
C15_RemovesStaleRows ==
    Reconciled =>
        LET tb == TableBefore
        IN  RowIds(tb) \ RowIds(TableAfter)
                = StaleIds(tb, phase_mapping, DataRowsWith(tb, PhaseCol(tb)))

\* C15 amended: the rows absent on return are exactly the data rows that have
\* both the phase cell and the estimate cell, match no key of PhaseMapping
\* and are no 'total' / 'estimated total' row; the rows that stay (the header
\* row and a row lacking a cell among them) keep their order.
C15_RemovesStaleRowsWithCells ==
    pc = "synced" =>
        \A at \in {BudgetTableIndex(pre.tables)} \ {NoIndex} :
        \A tb \in {pre.tables[at + 1]}, ta \in {doc.tables[at + 1]} :
        \A col \in {PhaseCol(tb)}, est \in {EstimateCol(tb)} :
        \A before \in {RowIds(tb)}, after \in {RowIds(ta)} :
        \A kept \in {SelectSeq(tb.rows, LAMBDA r : r.id \in after)},
           old  \in {SelectSeq(ta.rows, LAMBDA r : r.id \in before)} :
            /\ before \ after
                  = {tb.rows[i].id : i \in
                        {i \in DataRowsWith(tb, col) \cap DataRowsWith(tb, est) :
                            \A text \in {PhaseLower(tb.rows[i], col)} :
                                /\ MatchingKeys(phase_mapping, text) = {}
                                /\ text \notin {S_total, S_estimated_total}}}
            /\ [n \in 1..Len(kept) |-> kept[n].id] = [n \in 1..Len(old) |-> old[n].id]

\* C15's case: two stale rows with a row that stays between them were
\* removed, and a total row stayed
C15_Witness ==
    /\ Reconciled
    /\ LET tb   == TableBefore
           ta   == TableAfter
           gone == {i \in 1..Len(tb.rows) : tb.rows[i].id \notin RowIds(ta)}
       IN  /\ Len(tb.rows) = 4
           /\ gone = {2, 4}
           /\ ~LacksCell(tb.rows[3], PhaseCol(tb))
           /\ PhaseLower(tb.rows[3], PhaseCol(tb)) = S_total

\* the keys the first loop marked seen: for every data row of t that has both
\* cells and is matched, the first matching key in mapping order
SeenKeys(t, pm) ==
    {pm[CHOOSE n \in MatchingKeys(pm, PhaseLower(t.rows[i], PhaseCol(t))) :
            \A m \in MatchingKeys(pm, PhaseLower(t.rows[i], PhaseCol(t))) : n <= m][1] :
        i \in {i \in DataRowsWith(t, PhaseCol(t)) \cap DataRowsWith(t, EstimateCol(t)) :
                    MatchingKeys(pm, PhaseLower(t.rows[i], PhaseCol(t))) # {}}}

\* the items of pm that call for a new row, in mapping order
MissingItems(t, pm) ==
    SelectSeq(pm, LAMBDA item : item[1] \notin SeenKeys(t, pm) /\ item[1] # S_total)

\* the positions in ta of the rows that tb did not hold
NewPositions(tb, ta) == {j \in 1..Len(ta.rows) : ta.rows[j].id \notin RowIds(tb)}

\* the position in ta of the total row: the first row tb held already whose
\* phase text holds 'total' (0 for none)
TotalPosition(tb, ta) ==
    LET hits == {j \in DataRowsWith(ta, PhaseCol(tb)) \ NewPositions(tb, ta) :
                    Contains(S_total, PhaseLower(ta.rows[j], PhaseCol(tb)))}
    IN  IF hits = {} THEN 0 ELSE CHOOSE j \in hits : \A h \in hits : j <= h

\* C16 as stated: every key of PhaseMapping that is not 'total' and was not
\* marked seen has one new row, its phase text the title-cased key and its
\* estimate text the mapped amount; each new row is put immediately before
\* the total row when there is one, so that the new rows stand in mapping
\* order right above the total row, and at the end of the table in mapping
\* order when there is none.
C16_NewRowsBeforeTotal ==
    Reconciled =>
        LET tb    == TableBefore
            ta    == TableAfter
            col   == PhaseCol(tb)
            est   == EstimateCol(tb)
            items == MissingItems(tb, phase_mapping)
            n     == Len(items)
            p     == TotalPosition(tb, ta)
            from  == IF p = 0 THEN Len(ta.rows) - n ELSE p - 1 - n
        IN  /\ NewPositions(tb, ta) = {from + k : k \in 1..n}
            /\ \A k \in 1..n :
                    /\ CellText(ta.rows[from + k].cells[col + 1]) = Title(items[k][1])
                    /\ CellText(ta.rows[from + k].cells[est + 1]) = items[k][2]

\* the positions in t of the total rows the last step can write: the data
\* rows that have both cells and whose phase text holds 'total'
TotalRows(t) ==
    {j \in DataRowsWith(t, PhaseCol(t)) \cap DataRowsWith(t, EstimateCol(t)) :
        Contains(S_total, PhaseLower(t.rows[j], PhaseCol(t)))}

\* C17: when PhaseMapping holds the key 'total' and the table on return has
\* a total row (a data row with both cells whose phase text holds 'total'),
\* the estimate text of the first such row is PhaseMapping['total']; and the
\* step wrote to no other row: a row that is no total row is either a row
\* lacking a cell, exactly as it was at entry, or a matched row with the
\* amount of its first matching key, or a new row with the amount of its own
\* key.
C17_TotalRowUpdated ==
    (pc = "synced" /\ HasKey(phase_mapping, S_total)) =>
        \A at \in {BudgetTableIndex(pre.tables)} \ {NoIndex} :
        \A tb \in {pre.tables[at + 1]}, ta \in {doc.tables[at + 1]} :
        \A col \in {PhaseCol(tb)}, est \in {EstimateCol(tb)} :
        \A totals \in {TotalRows(ta)} :
            totals # {} =>
                /\ \E total \in totals :
                      /\ \A h \in totals : total <= h
                      /\ CellText(ta.rows[total].cells[est + 1]) = Get(phase_mapping, S_total)
                /\ \A j \in (2..Len(ta.rows)) \ totals :
                      \A i \in {RowOf(tb, ta.rows[j].id)} :
                          \/ /\ ~LacksCell(ta.rows[j], col)
                             /\ Contains(S_total, PhaseLower(ta.rows[j], col))
                          \/ /\ i # 0
                             /\ LacksCell(tb.rows[i], col) \/ LacksCell(tb.rows[i], est)
                             /\ ta.rows[j] = tb.rows[i]
                          \/ /\ i # 0
                             /\ ~LacksCell(tb.rows[i], col) /\ ~LacksCell(tb.rows[i], est)
                             /\ \A hits \in {MatchingKeys(phase_mapping,
                                                          PhaseLower(tb.rows[i], col))} :
                                    /\ hits # {}
                                    /\ \E n \in hits :
                                          /\ \A m \in hits : n <= m
                                          /\ CellText(ta.rows[j].cells[est + 1])
                                                = phase_mapping[n][2]
                          \/ /\ i = 0
                             /\ \E n \in 1..Len(phase_mapping) :
                                   /\ phase_mapping[n][1] # S_total
                                   /\ CellText(ta.rows[j].cells[col + 1])
                                         = Title(phase_mapping[n][1])
                                   /\ CellText(ta.rows[j].cells[est + 1]) = phase_mapping[n][2]

\* C17's case: the first total row was matched by the key 'discovery' in
\* the first loop and holds PhaseMapping['total'] on return, a later total
\* row is there too, and a row matched by 'discovery' alone holds its own
\* amount
C17_Witness ==
    /\ Reconciled
    /\ HasKey(phase_mapping, S_total)
    /\ phase_mapping[1][1] = K_discovery
    /\ LET tb  == TableBefore
           ta  == TableAfter
           col == PhaseCol(tb)
           est == EstimateCol(tb)
       IN  /\ Cardinality(TotalRows(ta)) = 2
           /\ \E j \in TotalRows(ta) :
                 /\ \A h \in TotalRows(ta) : j <= h
                 /\ PhaseLower(ta.rows[j], col) = Lower(T_DiscoveryTotal)
                 /\ CellText(ta.rows[j].cells[est + 1]) = Get(phase_mapping, S_total)
           /\ \E j \in DataRowsWith(ta, col) \cap DataRowsWith(ta, est) :
                 /\ PhaseLower(ta.rows[j], col) = K_discovery
                 /\ CellText(ta.rows[j].cells[est + 1]) = Get(phase_mapping, K_discovery)
                 /\ Get(phase_mapping, K_discovery) # Get(phase_mapping, S_total)

\* a row of t that lacks the phase cell or the estimate cell
Malformed(t, row) == LacksCell(row, PhaseCol(t)) \/ LacksCell(row, EstimateCol(t))

\* t with its malformed rows taken out
WithoutMalformed(t) ==
    [t EXCEPT !.rows = SelectSeq(t.rows, LAMBDA r : ~Malformed(t, r))]

CellsOf(rows) == [n \in 1..Len(rows) |-> rows[n].cells]

\* the malformed rows of tb are all in ta, as they were and in their order
MalformedRowsStay(tb, ta) ==
    SelectSeq(ta.rows, LAMBDA r : Malformed(ta, r))
        = SelectSeq(tb.rows, LAMBDA r : Malformed(tb, r))

ReconciledAgain == pc = "synced_again" /\ BudgetTableIndex(pre.tables) # NoIndex

\* the texts of the rows of t, row by row and cell by cell
RowTexts(t) ==
    [i \in 1..Len(t.rows) |->
        [j \in 1..Len(t.rows[i].cells) |-> CellText(t.rows[i].cells[j])]]

\* no key of pm holds another key of pm
NoNestedKeys(pm) ==
    \A m, n \in 1..Len(pm) : m # n => ~Contains(pm[m][1], pm[n][1])

\* C20 as stated: a second call of sync_budget_table with the same
\* PhaseMapping leaves the rows of the budget table, their order and their
\* texts as the first call left them.
C20_SecondCallNoChange ==
    ReconciledAgain => RowTexts(TableAfter) = RowTexts(TableBefore)

\* C20 amended: when no key of PhaseMapping holds another key, a second call
\* of sync_budget_table with the same PhaseMapping leaves the rows of the
\* budget table, their order and their texts as the first call left them,
\* and it adds and removes no row.
C20_SecondCallNoChangeDistinctKeys ==
    (pc = "synced_again" /\ NoNestedKeys(phase_mapping)) =>
        \A at \in {BudgetTableIndex(pre.tables)} \ {NoIndex} :
        \A tb \in {pre.tables[at + 1]}, ta \in {doc.tables[at + 1]} :
            /\ RowTexts(ta) = RowTexts(tb)
            /\ [i \in 1..Len(ta.rows) |-> ta.rows[i].id]
                  = [i \in 1..Len(tb.rows) |-> tb.rows[i].id]

\* C20's case: the first call removed a row, added two rows and rewrote an
\* estimate, and the second call was made on its result
C20_Witness ==
    /\ ReconciledAgain
    /\ NoNestedKeys(phase_mapping)
    /\ LET t0 == start.tables[BudgetTableIndex(start.tables) + 1]
           t1 == TableBefore
       IN  /\ RowIds(t0) \ RowIds(t1) # {}
           /\ Cardinality(RowIds(t1) \ RowIds(t0)) = 2
           /\ \E i \in 2..Len(t0.rows) :
                 /\ RowOf(t1, t0.rows[i].id) # 0
                 /\ t1.rows[RowOf(t1, t0.rows[i].id)] # t0.rows[i]

\* the phase name of Budget row i (counted from one here), trimmed and
\* lowercased; an empty cell has the empty name
PhaseName(i) ==
    IF excel.budget[i].phase = NaN THEN <<>> ELSE Lower(Strip(excel.budget[i].phase))

\* the Budget rows of index >= 1 whose name is neither empty nor 'nan'
NamedRows == {i \in 2..Len(excel.budget) : PhaseName(i) \notin {<<>>, S_nan}}

\* the amount cell holds a number, or a text that float() reads as one
IsNumericAmount(cell) ==
    \/ cell.kind = "num"
    \/ cell.kind = "str" /\ ParseFloat(cell.text).kind = "value"

\* C18: after a successful process_excel_file the keys of PhaseMapping are
\* the trimmed, lowercased phase names of the Budget rows of index >= 1
\* whose name is neither empty nor 'nan', each key once; row 0 gives no key;
\* the value of a key is that of the last row of that name, and it is the
\* empty string when that row's amount is blank or not a number.
C18_PhaseMappingKeys ==
    outcome = "ok" =>
        /\ Keys(phase_mapping) = {PhaseName(i) : i \in NamedRows}
        /\ IsInjective(KeyList(phase_mapping))
        /\ \A i \in NamedRows :
              (\A j \in NamedRows : PhaseName(j) = PhaseName(i) => j <= i) =>
                  IF IsNumericAmount(excel.budget[i].amount)
                  THEN IsMoney(Get(phase_mapping, PhaseName(i)))
                  ELSE Get(phase_mapping, PhaseName(i)) = <<>>

\* C18's case: row 0 is a phase row whose name no later row has, two later
\* rows share a lowercased name, the first with a number and the last with
\* a text that is no number, and the key holds the empty string
C18_Witness ==
    /\ outcome = "ok"
    /\ Len(excel.budget) = 3
    /\ excel.budget[1].phase = T_Total
    /\ excel.budget[2] = BudgetRow(T_Discovery, NumCell(5000, 1))
    /\ excel.budget[3] = BudgetRow(T_DISCOVERY_padded, StrCell(T_TBD))
    /\ KeyList(phase_mapping) = <<K_discovery>>
    /\ Get(phase_mapping, K_discovery) = <<>>

====
